---- MODULE Spec2Model ----
(***************************************************************************)
(* Network VMU bridge of flycast-vmuconn (shell/libretro/vmu_network.cpp): *)
(*   - NetworkVmuManager: the 5-state connection supervisor driven by      *)
(*     setEnabled() and update();                                          *)
(*   - VmuNetworkClient: one TCP socket, connect/disconnect, the peek      *)
(*     liveness probe and the line transport;                              *)
(*   - the ASCII-hex frame codec of sendMapleMessage/receiveMapleMessage.  *)
(*                                                                         *)
(* Time is counted in whole seconds, as the code reads it                  *)
(* (duration_cast<seconds>).  The two timestamps of the supervisor are     *)
(* kept as ages (now - timestamp).  An age stops growing at the value the  *)
(* code compares it with: every larger age gives the same comparisons.     *)
(* getTimeInCurrentState() is read in RECONNECTING only, against           *)
(* backoff_seconds; the age of last_health_check is read against           *)
(* HEALTH_CHECK_INTERVAL_SECONDS.                                          *)
(***************************************************************************)
EXTENDS Integers, Sequences, FiniteSets, TLC

(***************************************************************************)
(* Bounds of the model (not program constants).                            *)
(***************************************************************************)
\* the process may hold this many socket handles; socket() fails beyond it
MaxFds == 2
\* unread bytes the kernel buffers for the client's socket
MaxRx == 1
\* notifications recorded; update() is not taken once the record is full
MaxNotes == 3
\* RECONNECTING waits recorded by the history variable waits
MaxWaits == 8
\* update() calls counted since the feature was enabled
MaxTicks == 3
\* tokens in a received line
MaxLineTokens == 6
\* request/response exchanges the callers make, all together
MaxExchanges == 3
\* pieces in which a line crosses the socket (send() and recv() may move a
\* line in parts); the last piece ends with CR LF
LineChunks == 2

(***************************************************************************)
(* Program constants.                                                      *)
(***************************************************************************)
MAX_BACKOFF_SECONDS == 30
HEALTH_CHECK_INTERVAL_SECONDS == 5
INVALID_SOCKET == -1

DISABLED == "DISABLED"
DISCONNECTED == "DISCONNECTED"
CONNECTING == "CONNECTING"
CONNECTED == "CONNECTED"
RECONNECTING == "RECONNECTING"
NetworkVmuState == {DISABLED, DISCONNECTED, CONNECTING, CONNECTED, RECONNECTING}

Min(a, b) == IF a <= b THEN a ELSE b

VARIABLES
    \* NetworkVmuManager
    current_state,      \* NetworkVmuState
    enabled,            \* bool
    backoff_seconds,    \* int
    timeInState,        \* now - state_entered_time, in seconds, saturated
    sinceHealthCheck,   \* now - last_health_check, in seconds, saturated
    client,             \* the unique_ptr<VmuNetworkClient>: NoClient or a client
    \* operating system and peer
    openFds,            \* socket handles the process holds open
    peer,               \* remote end of the client's socket
    rx,                 \* unread bytes buffered on the client's socket
    \* host
    notifications,      \* messages handed to environ_cb, oldest first
    \* history (not program state)
    op,                 \* the last setEnabled()/update() call and what it did
    hist,               \* what has happened so far
    waits               \* backoff values of the RECONNECTING waits so far

supervisorVars == <<current_state, enabled, backoff_seconds, timeInState,
                    sinceHealthCheck, client, openFds, peer, rx,
                    notifications, op, hist, waits>>

VARIABLES
    \* one frame taken through sendMapleMessage and receiveMapleMessage
    codec_pc,           \* "idle", "frame", "encoded" or "decoded"
    msg,                \* the MapleMsg handed to sendMapleMessage, as bytes
    wire,               \* the text sendMapleMessage hands to sendRawMessage
    received            \* what receiveMapleMessage makes of that line

codecVars == <<codec_pc, msg, wire, received>>

VARIABLES
    \* callers that use the client through getClient()
    last_call           \* the last connect(), disconnect() or isConnected()
                        \* made on the client directly, and what it did

VARIABLES
    \* threads that exchange frames with the peer: sendMapleMessage, then
    \* receiveMapleMessage, on the client getClient() returned
    client_mutex,       \* owner of VmuNetworkClient::client_mutex, or "free"
    caller_pc,          \* where each caller is
    progress,           \* pieces of the line the caller's send()/recv() loop has moved
    exchanges,          \* exchanges each caller has started
    socket_out,         \* what send() has written to the socket, oldest first
    socket_in,          \* what the peer has sent and recv() has not read yet
    answered,           \* pieces of its answers the peer has sent
    \* history (not program state)
    read_log,           \* what recv() has read, oldest first, and for which call
    ret,                \* what each caller's last finished call returned
    reply,              \* whose request the frame each caller received answers
    aborted             \* calls that ended by a timeout or an I/O error

busVars == <<client_mutex, caller_pc, progress, exchanges, socket_out,
             socket_in, answered, read_log, ret, reply, aborted>>

VARIABLES
    \* one sendRawMessage() or receiveRawMessage() call followed step by step
    raw

rawVars == <<raw>>

VARIABLES
    \* one MapleMsg filled word by word with setWord()
    built

frameVars == <<built>>

callerVars == <<last_call, busVars, rawVars, frameVars>>

(***************************************************************************)
(* VmuNetworkClient                                                        *)
(***************************************************************************)
\* client == nullptr
NoClient == [exists |-> FALSE, socket_fd |-> INVALID_SOCKET, connected |-> FALSE]
\* a freshly constructed VmuNetworkClient
NewClient == [exists |-> TRUE, socket_fd |-> INVALID_SOCKET, connected |-> FALSE]

Fds == 1 .. MaxFds
\* socket(): the lowest unused handle, INVALID_SOCKET when none is left
Socket(fds) ==
    IF Fds \ fds = {} THEN INVALID_SOCKET
    ELSE CHOOSE f \in Fds \ fds : \A g \in Fds \ fds : f <= g

\* closesocket(fd)
CloseSocket(fds, fd) == fds \ {fd}

\* Outcomes of the system calls made by connect()
ConnectOutcomes == {"ok", "refused", "nosocket"}

\* mutant of Connect: the guard "if (connected) return true" is left out
Connect_NoGuard(c, fds, outcome) ==
    LET fd == IF outcome = "nosocket" THEN INVALID_SOCKET ELSE Socket(fds)
    IN  IF fd = INVALID_SOCKET
        THEN [client |-> [c EXCEPT !.socket_fd = INVALID_SOCKET],
              fds |-> fds, result |-> FALSE]
        ELSE IF outcome # "ok"
        THEN [client |-> [c EXCEPT !.socket_fd = INVALID_SOCKET],
              fds |-> CloseSocket(fds \cup {fd}, fd),
              result |-> FALSE]
        ELSE [client |-> [c EXCEPT !.socket_fd = fd, !.connected = TRUE],
              fds |-> fds \cup {fd}, result |-> TRUE]

\* mutant of Connect: connected is set as soon as socket() has succeeded,
\* before ::connect() is tried
Connect_ConnectedEarly(c, fds, outcome) ==
    IF c.connected THEN [client |-> c, fds |-> fds, result |-> TRUE]
    ELSE LET fd == IF outcome = "nosocket" THEN INVALID_SOCKET ELSE Socket(fds)
         IN  IF fd = INVALID_SOCKET
             THEN [client |-> [c EXCEPT !.socket_fd = INVALID_SOCKET],
                   fds |-> fds, result |-> FALSE]
             ELSE IF outcome # "ok"
             THEN [client |-> [c EXCEPT !.socket_fd = INVALID_SOCKET, !.connected = TRUE],
                   fds |-> CloseSocket(fds \cup {fd}, fd),
                   result |-> FALSE]
             ELSE [client |-> [c EXCEPT !.socket_fd = fd, !.connected = TRUE],
                   fds |-> fds \cup {fd}, result |-> TRUE]

\* VmuNetworkClient::connect() on client c with open handles fds; `outcome'
\* is what socket() and ::connect() do.  Returns the client, the handles
\* and the result.
Connect(c, fds, outcome) ==
    IF c.connected THEN [client |-> c, fds |-> fds, result |-> TRUE]
    ELSE LET fd == IF outcome = "nosocket" THEN INVALID_SOCKET ELSE Socket(fds)
         IN  IF fd = INVALID_SOCKET
             THEN [client |-> [c EXCEPT !.socket_fd = INVALID_SOCKET],
                   fds |-> fds, result |-> FALSE]
             ELSE IF outcome # "ok"
             THEN [client |-> [c EXCEPT !.socket_fd = INVALID_SOCKET],
                   fds |-> CloseSocket(fds \cup {fd}, fd),
                   result |-> FALSE]
             ELSE [client |-> [c EXCEPT !.socket_fd = fd, !.connected = TRUE],
                   fds |-> fds \cup {fd}, result |-> TRUE]

\* mutant of Disconnect: the handle is closed but socket_fd keeps its value
Disconnect_KeepsHandle(c, fds) ==
    [client |-> [c EXCEPT !.connected = FALSE],
     fds |-> IF c.socket_fd # INVALID_SOCKET THEN CloseSocket(fds, c.socket_fd) ELSE fds]

\* VmuNetworkClient::disconnect()
Disconnect(c, fds) ==
    [client |-> [c EXCEPT !.socket_fd = INVALID_SOCKET, !.connected = FALSE],
     fds |-> IF c.socket_fd # INVALID_SOCKET THEN CloseSocket(fds, c.socket_fd) ELSE fds]

\* client->disconnect(); client.reset();  (the destructor disconnects again)
ReleaseClient(c, fds) ==
    LET d  == Disconnect(c, fds)
        d2 == Disconnect(d.client, d.fds)
    IN  [client |-> NoClient, fds |-> d2.fds]

\* recv(socket_fd, &test_byte, 1, MSG_PEEK | MSG_DONTWAIT):
\* 1 with unread data, 0 once the peer has closed and the buffer is drained,
\* otherwise SOCKET_ERROR with a hard error or with "would block"
PeekResult(p, n) ==
    IF p = "reset" THEN "error"
    ELSE IF n > 0 THEN "data"
    ELSE IF p = "closed" THEN "zero"
    ELSE "wouldblock"

\* VmuNetworkClient::isConnected(): the result and the connected flag after it
\* mutant of IsConnected: errno is not looked at, every SOCKET_ERROR counts
\* as a lost connection
IsConnected_AnyError(c, p, n) ==
    IF ~c.connected THEN [result |-> FALSE, client |-> c, peek |-> "none"]
    ELSE IF PeekResult(p, n) = "zero"
    THEN [result |-> FALSE, client |-> [c EXCEPT !.connected = FALSE], peek |-> "zero"]
    ELSE IF PeekResult(p, n) \in {"error", "wouldblock"}
    THEN [result |-> FALSE, client |-> [c EXCEPT !.connected = FALSE],
          peek |-> PeekResult(p, n)]
    ELSE [result |-> TRUE, client |-> c, peek |-> PeekResult(p, n)]

\* VmuNetworkClient::isConnected(): the result, the client after it and what
\* the recv() it made returned ("none": recv() was not called)
IsConnected(c, p, n) ==
    IF ~c.connected THEN [result |-> FALSE, client |-> c, peek |-> "none"]
    ELSE IF PeekResult(p, n) = "zero"
    THEN [result |-> FALSE, client |-> [c EXCEPT !.connected = FALSE], peek |-> "zero"]
    ELSE IF PeekResult(p, n) = "error"
    THEN [result |-> FALSE, client |-> [c EXCEPT !.connected = FALSE], peek |-> "error"]
    ELSE [result |-> TRUE, client |-> c, peek |-> PeekResult(p, n)]

(***************************************************************************)
(* NetworkVmuManager                                                       *)
(***************************************************************************)
\* The texts passed to showConnectionMessage, reduced to the word that
\* strstr() can match ("Network VMU A1 <word> to/from DreamPotato").
MsgConnected == <<"c","o","n","n","e","c","t","e","d">>
MsgDisconnected == <<"d","i","s">> \o MsgConnected
MsgReconnected == <<"r","e">> \o MsgConnected

\* strstr(hay, needle) != nullptr
StrStr(hay, needle) ==
    \E i \in 1 .. (Len(hay) - Len(needle) + 1) :
        SubSeq(hay, i, i + Len(needle) - 1) = needle

\* the retro_environment_t callback handed to the constructor is present
environ_cb == TRUE

\* history: no direct call on the client yet
NoClientCall ==
    [name |-> "none", result |-> FALSE, before |-> NoClient, fdsBefore |-> {},
     after |-> NoClient, fdsAfter |-> {}, peek |-> "none", prev |-> "none"]

\* the threads that use the client
Callers == {"a", "b"}

NoReply == [for |-> "none", n |-> 0]

BusIdle ==
    /\ client_mutex = "free"
    /\ caller_pc = [t \in Callers |-> "idle"]
    /\ progress = [t \in Callers |-> 0]
    /\ exchanges = [t \in Callers |-> 0]
    /\ socket_out = <<>>
    /\ socket_in = <<>>
    /\ answered = 0
    /\ read_log = <<>>
    /\ ret = [t \in Callers |-> "none"]
    /\ reply = [t \in Callers |-> NoReply]
    /\ aborted = {}

\* no raw call is followed
RawIdle ==
    raw = [pc |-> "none", call |-> "none", message |-> 0, total_sent |-> 0,
           stream |-> <<>>, frame_size |-> -1, pos |-> 0, response |-> <<>>,
           late |-> FALSE, result |-> "none", why |-> "none"]

\* no frame is being filled
FrameIdle == built = [frame |-> <<>>, before |-> <<>>, index |-> 0, calls |-> 0]

CallersIdle == last_call = NoClientCall /\ BusIdle /\ RawIdle /\ FrameIdle

\* mutant of ShowConnectionMessage: the message is logged, never shown
ShowConnectionMessage_LogOnly(message) == <<>>

\* showConnectionMessage(message, duration): the messages it hands to
\* environ_cb(RETRO_ENVIRONMENT_SET_MESSAGE, ...)
ShowConnectionMessage(message) ==
    LET is_connection_established ==
            StrStr(message, MsgConnected) /\ ~StrStr(message, MsgDisconnected)
        is_disconnection == StrStr(message, MsgDisconnected)
        is_reconnection == StrStr(message, MsgReconnected)
    IN  IF is_connection_established \/ is_disconnection \/ is_reconnection
        THEN IF environ_cb /\ (is_connection_established \/ is_disconnection)
             THEN <<message>> ELSE <<>>
        ELSE <<>>

\* shouldCheckHealth()
ShouldCheckHealth == sinceHealthCheck >= HEALTH_CHECK_INTERVAL_SECONDS

\* isConnectionHealthy(): client && client->isConnected()
IsConnectionHealthy(c, p, n) ==
    IF ~c.exists THEN [result |-> FALSE, client |-> c] ELSE IsConnected(c, p, n)

\* mutant of AttemptConnection: a client whose connect() failed is destroyed
AttemptConnection_ResetsOnFailure(c, fds, outcome) ==
    LET a == Connect(IF c.exists THEN c ELSE NewClient, fds, outcome)
    IN  IF a.result THEN a
        ELSE [client |-> NoClient,
              fds |-> Disconnect(a.client, a.fds).fds, result |-> FALSE]

\* attemptConnection()
AttemptConnection(c, fds, outcome) ==
    Connect(IF c.exists THEN c ELSE NewClient, fds, outcome)

\* mutant of NextBackoff: the cap is left out
NextBackoff_NoCap(b) == b * 2

\* backoff_seconds after a failed retry
NextBackoff(b) == Min(b * 2, MAX_BACKOFF_SECONDS)

\* What one update() call does, per case of its switch: the state, whether
\* enterState() ran, the backoff, the client and the handles after it,
\* whether the liveness probe ran, the messages shown and the connect() made.
Stay ==
    [state |-> current_state, entered |-> FALSE, backoff |-> backoff_seconds,
     client |-> client, fds |-> openFds, probed |-> FALSE, msgs |-> <<>>,
     connect |-> "none"]

EnterState(r, new_state) == [r EXCEPT !.state = new_state, !.entered = TRUE]

UpdateDisabled ==
    IF enabled THEN EnterState(Stay, DISCONNECTED) ELSE Stay

UpdateDisconnected ==
    IF ~enabled THEN EnterState(Stay, DISABLED)
    ELSE EnterState(Stay, CONNECTING)

\* mutant of UpdateConnecting: the result of attemptConnection() is ignored
UpdateConnecting_IgnoresResult(outcome) ==
    IF ~enabled THEN EnterState(Stay, DISABLED)
    ELSE LET a == AttemptConnection(client, openFds, outcome)
         IN  [EnterState(Stay, CONNECTED) EXCEPT
                 !.backoff = 1, !.client = a.client, !.fds = a.fds,
                 !.msgs = ShowConnectionMessage(MsgConnected),
                 !.connect = IF a.result THEN "ok" ELSE "fail"]

\* mutant of UpdateConnecting: a failed first attempt goes back to
\* DISCONNECTED and is retried at once
UpdateConnecting_RetriesAtOnce(outcome) ==
    IF ~enabled THEN EnterState(Stay, DISABLED)
    ELSE LET a == AttemptConnection(client, openFds, outcome)
         IN  IF a.result
             THEN [EnterState(Stay, CONNECTED) EXCEPT
                     !.backoff = 1, !.client = a.client, !.fds = a.fds,
                     !.msgs = ShowConnectionMessage(MsgConnected),
                     !.connect = "ok"]
             ELSE [EnterState(Stay, DISCONNECTED) EXCEPT
                     !.client = a.client, !.fds = a.fds, !.connect = "fail"]

UpdateConnecting(outcome) ==
    IF ~enabled THEN EnterState(Stay, DISABLED)
    ELSE LET a == AttemptConnection(client, openFds, outcome)
         IN  IF a.result
             THEN [EnterState(Stay, CONNECTED) EXCEPT
                     !.backoff = 1, !.client = a.client, !.fds = a.fds,
                     !.msgs = ShowConnectionMessage(MsgConnected),
                     !.connect = "ok"]
             ELSE [EnterState(Stay, RECONNECTING) EXCEPT
                     !.client = a.client, !.fds = a.fds, !.connect = "fail"]

\* mutant of UpdateConnected: a lost connection is remade in the same call
UpdateConnected_ReconnectsAtOnce ==
    IF ~enabled
    THEN IF client.exists
         THEN LET d == ReleaseClient(client, openFds)
              IN  [EnterState(Stay, DISABLED) EXCEPT !.client = d.client, !.fds = d.fds]
         ELSE EnterState(Stay, DISABLED)
    ELSE IF ShouldCheckHealth
    THEN LET h == IsConnectionHealthy(client, peer, rx)
         IN  IF ~h.result
             THEN LET a == AttemptConnection(h.client, openFds, "ok")
                  IN  IF a.result
                      THEN [Stay EXCEPT !.client = a.client, !.fds = a.fds,
                                        !.probed = TRUE, !.connect = "ok"]
                      ELSE [EnterState(Stay, RECONNECTING) EXCEPT
                              !.client = a.client, !.fds = a.fds, !.probed = TRUE,
                              !.connect = "fail",
                              !.msgs = ShowConnectionMessage(MsgDisconnected)]
             ELSE [Stay EXCEPT !.client = h.client, !.probed = TRUE]
    ELSE Stay

\* mutant of UpdateConnected: the probe is made and its answer dropped
UpdateConnected_ProbeOnly ==
    IF ~enabled
    THEN IF client.exists
         THEN LET d == ReleaseClient(client, openFds)
              IN  [EnterState(Stay, DISABLED) EXCEPT !.client = d.client, !.fds = d.fds]
         ELSE EnterState(Stay, DISABLED)
    ELSE IF ShouldCheckHealth
    THEN LET h == IsConnectionHealthy(client, peer, rx)
         IN  [Stay EXCEPT !.client = h.client, !.probed = TRUE]
    ELSE Stay

\* mutant of UpdateConnected: a lost connection starts over from DISCONNECTED
UpdateConnected_ToDisconnected ==
    IF ~enabled
    THEN IF client.exists
         THEN LET d == ReleaseClient(client, openFds)
              IN  [EnterState(Stay, DISABLED) EXCEPT !.client = d.client, !.fds = d.fds]
         ELSE EnterState(Stay, DISABLED)
    ELSE IF ShouldCheckHealth
    THEN LET h == IsConnectionHealthy(client, peer, rx)
         IN  IF ~h.result
             THEN [EnterState(Stay, DISCONNECTED) EXCEPT
                     !.client = h.client, !.probed = TRUE,
                     !.msgs = ShowConnectionMessage(MsgDisconnected)]
             ELSE [Stay EXCEPT !.client = h.client, !.probed = TRUE]
    ELSE Stay

UpdateConnected ==
    IF ~enabled
    THEN IF client.exists
         THEN LET d == ReleaseClient(client, openFds)
              IN  [EnterState(Stay, DISABLED) EXCEPT !.client = d.client, !.fds = d.fds]
         ELSE EnterState(Stay, DISABLED)
    ELSE IF ShouldCheckHealth
    THEN LET h == IsConnectionHealthy(client, peer, rx)
         IN  IF ~h.result
             THEN [EnterState(Stay, RECONNECTING) EXCEPT
                     !.client = h.client, !.probed = TRUE,
                     !.msgs = ShowConnectionMessage(MsgDisconnected)]
             ELSE [Stay EXCEPT !.client = h.client, !.probed = TRUE]
    ELSE Stay

\* mutant of UpdateReconnecting: a successful retry does not reset the backoff
UpdateReconnecting_NoBackoffReset(outcome) ==
    IF ~enabled THEN EnterState(Stay, DISABLED)
    ELSE IF timeInState >= backoff_seconds
    THEN LET a == AttemptConnection(client, openFds, outcome)
         IN  IF a.result
             THEN [EnterState(Stay, CONNECTED) EXCEPT
                     !.client = a.client, !.fds = a.fds,
                     !.msgs = ShowConnectionMessage(MsgReconnected),
                     !.connect = "ok"]
             ELSE [EnterState(Stay, RECONNECTING) EXCEPT
                     !.backoff = NextBackoff(backoff_seconds),
                     !.client = a.client, !.fds = a.fds, !.connect = "fail"]
    ELSE Stay

\* mutant of UpdateReconnecting: every failed retry is announced
UpdateReconnecting_AnnouncesRetry(outcome) ==
    IF ~enabled THEN EnterState(Stay, DISABLED)
    ELSE IF timeInState >= backoff_seconds
    THEN LET a == AttemptConnection(client, openFds, outcome)
         IN  IF a.result
             THEN [EnterState(Stay, CONNECTED) EXCEPT
                     !.backoff = 1, !.client = a.client, !.fds = a.fds,
                     !.msgs = ShowConnectionMessage(MsgReconnected),
                     !.connect = "ok"]
             ELSE [EnterState(Stay, RECONNECTING) EXCEPT
                     !.backoff = NextBackoff(backoff_seconds),
                     !.client = a.client, !.fds = a.fds, !.connect = "fail",
                     !.msgs = ShowConnectionMessage(MsgDisconnected)]
    ELSE Stay

\* mutant of UpdateReconnecting: a failed retry does not call enterState()
UpdateReconnecting_NoTimerReset(outcome) ==
    IF ~enabled THEN EnterState(Stay, DISABLED)
    ELSE IF timeInState >= backoff_seconds
    THEN LET a == AttemptConnection(client, openFds, outcome)
         IN  IF a.result
             THEN [EnterState(Stay, CONNECTED) EXCEPT
                     !.backoff = 1, !.client = a.client, !.fds = a.fds,
                     !.msgs = ShowConnectionMessage(MsgReconnected),
                     !.connect = "ok"]
             ELSE [Stay EXCEPT
                     !.backoff = NextBackoff(backoff_seconds),
                     !.client = a.client, !.fds = a.fds, !.connect = "fail"]
    ELSE Stay

\* mutant of UpdateReconnecting: a successful retry does not enter CONNECTED
UpdateReconnecting_StaysReconnecting(outcome) ==
    IF ~enabled THEN EnterState(Stay, DISABLED)
    ELSE IF timeInState >= backoff_seconds
    THEN LET a == AttemptConnection(client, openFds, outcome)
         IN  IF a.result
             THEN [Stay EXCEPT
                     !.backoff = 1, !.client = a.client, !.fds = a.fds,
                     !.connect = "ok"]
             ELSE [EnterState(Stay, RECONNECTING) EXCEPT
                     !.backoff = NextBackoff(backoff_seconds),
                     !.client = a.client, !.fds = a.fds, !.connect = "fail"]
    ELSE Stay

UpdateReconnecting(outcome) ==
    IF ~enabled THEN EnterState(Stay, DISABLED)
    ELSE IF timeInState >= backoff_seconds
    THEN LET a == AttemptConnection(client, openFds, outcome)
         IN  IF a.result
             THEN [EnterState(Stay, CONNECTED) EXCEPT
                     !.backoff = 1, !.client = a.client, !.fds = a.fds,
                     !.msgs = ShowConnectionMessage(MsgReconnected),
                     !.connect = "ok"]
             ELSE [EnterState(Stay, RECONNECTING) EXCEPT
                     !.backoff = NextBackoff(backoff_seconds),
                     !.client = a.client, !.fds = a.fds, !.connect = "fail"]
    ELSE Stay

\* update(): the switch on current_state
UpdateResult(outcome) ==
    CASE current_state = DISABLED     -> UpdateDisabled
      [] current_state = DISCONNECTED -> UpdateDisconnected
      [] current_state = CONNECTING   -> UpdateConnecting(outcome)
      [] current_state = CONNECTED    -> UpdateConnected
      [] current_state = RECONNECTING -> UpdateReconnecting(outcome)

\* mutant of SetEnabledResult: disabling keeps the client and its socket
SetEnabledResult_KeepsClient(enable) ==
    IF ~enable /\ current_state # DISABLED THEN EnterState(Stay, DISABLED)
    ELSE IF enable /\ current_state = DISABLED THEN EnterState(Stay, DISCONNECTED)
    ELSE Stay

\* mutant of SetEnabledResult: enabling leaves the transition to update()
SetEnabledResult_DefersEnable(enable) ==
    IF ~enable /\ current_state # DISABLED
    THEN IF client.exists
         THEN LET d == ReleaseClient(client, openFds)
              IN  [EnterState(Stay, DISABLED) EXCEPT !.client = d.client, !.fds = d.fds]
         ELSE EnterState(Stay, DISABLED)
    ELSE Stay

\* mutant of SetEnabledResult: switching off starts the backoff afresh
SetEnabledResult_ResetsBackoff(enable) ==
    IF ~enable /\ current_state # DISABLED
    THEN IF client.exists
         THEN LET d == ReleaseClient(client, openFds)
              IN  [EnterState(Stay, DISABLED) EXCEPT
                     !.client = d.client, !.fds = d.fds, !.backoff = 1]
         ELSE [EnterState(Stay, DISABLED) EXCEPT !.backoff = 1]
    ELSE IF enable /\ current_state = DISABLED
    THEN EnterState(Stay, DISCONNECTED)
    ELSE Stay

\* setEnabled(enable): the same record, for the state it leaves
SetEnabledResult(enable) ==
    IF ~enable /\ current_state # DISABLED
    THEN IF client.exists
         THEN LET d == ReleaseClient(client, openFds)
              IN  [EnterState(Stay, DISABLED) EXCEPT !.client = d.client, !.fds = d.fds]
         ELSE EnterState(Stay, DISABLED)
    ELSE IF enable /\ current_state = DISABLED
    THEN EnterState(Stay, DISCONNECTED)
    ELSE Stay

(***************************************************************************)
(* Frame codec: sendMapleMessage / receiveMapleMessage                     *)
(*                                                                         *)
(* A MapleMsg is its object representation, SIZEOF_MAPLEMSG bytes: command,*)
(* destAP, originAP, size, then data[0 .. 1023].  A text is a sequence of  *)
(* characters.                                                             *)
(***************************************************************************)
SIZEOF_MAPLEMSG == 1028
HEADER_SIZE == 4

Command(m) == m[1]
DestAP(m) == m[2]
OriginAP(m) == m[3]
Size(m) == m[4]
\* data[i], i from 0
Data(m, i) == m[HEADER_SIZE + 1 + i]
\* getDataSize()
GetDataSize(m) == Size(m) * 4

LowerDigits == <<"0","1","2","3","4","5","6","7","8","9","a","b","c","d","e","f">>
UpperDigits == <<"0","1","2","3","4","5","6","7","8","9","A","B","C","D","E","F">>

\* operator<<(int) under std::hex: the digits of n, lower case, no padding
RECURSIVE HexDigits(_)
HexDigits(n) ==
    IF n < 16 THEN <<LowerDigits[n + 1]>>
    ELSE HexDigits(n \div 16) \o <<LowerDigits[(n % 16) + 1]>>

\* std::setfill('0') << std::setw(2): pad on the left to two characters
SetW2(t) == IF Len(t) < 2 THEN [i \in 1 .. (2 - Len(t)) |-> "0"] \o t ELSE t

\* oss << std::setw(2) << (int)byte
HexByte(b) == SetW2(HexDigits(b))

\* mutant of DataText: the separating " " is left out
RECURSIVE DataText_NoSeparator(_, _, _)
DataText_NoSeparator(m, lo, hi) ==
    IF lo > hi THEN <<>>
    ELSE IF lo = hi THEN HexByte(Data(m, lo))
    ELSE LET mid == (lo + hi) \div 2
         IN  DataText_NoSeparator(m, lo, mid) \o DataText_NoSeparator(m, mid + 1, hi)

\* the loop over the data bytes lo .. hi: " " and the byte, for each in turn
RECURSIVE DataText(_, _, _)
DataText(m, lo, hi) ==
    IF lo > hi THEN <<>>
    ELSE IF lo = hi THEN <<" ">> \o HexByte(Data(m, lo))
    ELSE LET mid == (lo + hi) \div 2
         IN  DataText(m, lo, mid) \o DataText(m, mid + 1, hi)

\* sendMapleMessage(msg): the string passed to sendRawMessage
EncodeMapleMessage(m) ==
    HexByte(Command(m)) \o <<" ">> \o HexByte(DestAP(m)) \o <<" ">>
        \o HexByte(OriginAP(m)) \o <<" ">> \o HexByte(Size(m))
        \o DataText(m, 0, GetDataSize(m) - 1)
        \o <<"\r", "\n">>

\* receiveRawMessage(): the line it returns for text t, which ends in the
\* first CR LF of the stream: the terminator is erased
StripTerminator(t) == SubSeq(t, 1, Len(t) - 2)

\* std::isspace in the "C" locale ("VT" stands for the vertical tab)
IsSpace(c) == c \in {" ", "\t", "\n", "\r", "VT", "\f"}

Indices(t) == [i \in 1 .. Len(t) |-> i]

\* iss >> byteStr, repeated: the maximal runs of non-space characters
Tokens(t) ==
    LET IsStart(i) == ~IsSpace(t[i]) /\ (i = 1 \/ IsSpace(t[i - 1]))
        IsEnd(i) == ~IsSpace(t[i]) /\ (i = Len(t) \/ IsSpace(t[i + 1]))
        starts == SelectSeq(Indices(t), IsStart)
        ends == SelectSeq(Indices(t), IsEnd)
    IN  [k \in 1 .. Len(starts) |-> SubSeq(t, starts[k], ends[k])]

IsHexDigit(c) == \E v \in 1 .. 16 : LowerDigits[v] = c \/ UpperDigits[v] = c
DigitValue(c) == (CHOOSE v \in 1 .. 16 : LowerDigits[v] = c \/ UpperDigits[v] = c) - 1

\* std::stoi(token, nullptr, 16) followed by the cast to u8: strtol skips an
\* optional sign and an optional 0x, reads the hex digits that follow and
\* stops at the first other character.  No digit at all throws
\* std::invalid_argument, a value outside int throws std::out_of_range.
StoiHexU8(tok) ==
    LET negative == Len(tok) >= 1 /\ tok[1] = "-"
        signed == Len(tok) >= 1 /\ tok[1] \in {"+", "-"}
        p == IF signed THEN 2 ELSE 1
        prefixed == /\ Len(tok) >= p + 2
                    /\ tok[p] = "0" /\ tok[p + 1] \in {"x", "X"}
                    /\ IsHexDigit(tok[p + 2])
        first == IF prefixed THEN p + 2 ELSE p
        \* the digits run from first to last
        stops == {i \in first .. Len(tok) : ~IsHexDigit(tok[i])}
        last == IF stops = {} THEN Len(tok)
                ELSE (CHOOSE i \in stops : \A j \in stops : i <= j) - 1
        zeros == {i \in first .. last : \A j \in first .. i : tok[j] = "0"}
        \* the first significant digit
        sig == first + Cardinality(zeros)
        ndigits == last - sig + 1
        low == IF ndigits <= 0 THEN 0
               ELSE IF ndigits = 1 THEN DigitValue(tok[last])
               ELSE 16 * DigitValue(tok[last - 1]) + DigitValue(tok[last])
        \* outside [-2^31, 2^31 - 1]
        tooBig == \/ ndigits > 8
                  \/ /\ ndigits = 8
                     /\ DigitValue(tok[sig]) >= 8
                     /\ ~(negative /\ DigitValue(tok[sig]) = 8
                          /\ \A j \in (sig + 1) .. last : tok[j] = "0")
    IN  IF last < first THEN [throws |-> "invalid_argument", value |-> 0]
        ELSE IF tooBig THEN [throws |-> "out_of_range", value |-> 0]
        ELSE [throws |-> "none",
              value |-> IF negative THEN (256 - low) % 256 ELSE low]

\* memset(&msg, 0, sizeof(msg))
ZeroMsg == [i \in 1 .. SIZEOF_MAPLEMSG |-> 0]

\* mutant of DecodeMapleMessage: the loop runs while tokens remain, without
\* the bound i < sizeof(MapleMsg)
DecodeMapleMessage_NoBound(response) ==
    LET toks == Tokens(response)
        n == Len(toks)
        conv == [k \in 1 .. n |-> StoiHexU8(toks[k])]
        bad == {k \in 1 .. n : conv[k].throws # "none"}
        written == IF bad = {} THEN n
                   ELSE (CHOOSE k \in bad : \A j \in bad : k <= j) - 1
    IN  [result |-> IF bad = {} THEN "true" ELSE conv[written + 1].throws,
         written |-> written,
         msg |-> [i \in 1 .. SIZEOF_MAPLEMSG |->
                     IF i <= written THEN conv[i].value ELSE ZeroMsg[i]]]

\* receiveMapleMessage() after receiveRawMessage() returned `response':
\* how the call ends (true, or an exception thrown by std::stoi), the number
\* of bytes stored through ((u8*)&msg)[i], i = 0 .. written - 1, and the
\* bytes of msg afterwards
DecodeMapleMessage(response) ==
    LET toks == Tokens(response)
        n == Min(Len(toks), SIZEOF_MAPLEMSG)
        conv == [k \in 1 .. n |-> StoiHexU8(toks[k])]
        bad == {k \in 1 .. n : conv[k].throws # "none"}
        \* the loop stops at the first token std::stoi rejects
        written == IF bad = {} THEN n
                   ELSE (CHOOSE k \in bad : \A j \in bad : k <= j) - 1
    IN  [result |-> IF bad = {} THEN "true" ELSE conv[written + 1].throws,
         written |-> written,
         msg |-> [i \in 1 .. SIZEOF_MAPLEMSG |->
                     IF i <= written THEN conv[i].value ELSE ZeroMsg[i]]]

(***************************************************************************)
(* One frame through the codec                                             *)
(***************************************************************************)
\* frames tried: header bytes, word counts and the two data patterns
CommandSamples == {0, 7, 255}
DestSamples == {1, 160}
OriginSamples == {0, 32}
SizeSamples == {0, 1, 2, 255}
PatternSamples == {1, 37}

\* a MapleMsg whose data[] is filled with the pattern, past size * 4 too
\* (data[] is not initialised by the constructor)
SampleMsg(c, d, o, sz, pat) ==
    [i \in 1 .. SIZEOF_MAPLEMSG |->
        IF i = 1 THEN c ELSE IF i = 2 THEN d ELSE IF i = 3 THEN o
        ELSE IF i = 4 THEN sz ELSE (pat * (i - HEADER_SIZE) + 90) % 256]

NoResult == [result |-> "none", written |-> 0, msg |-> <<>>]

CodecIdle ==
    /\ codec_pc = "idle"
    /\ msg = <<>>
    /\ wire = <<>>
    /\ received = NoResult

CodecInit ==
    /\ codec_pc = "frame"
    /\ \E c \in CommandSamples, d \in DestSamples, o \in OriginSamples,
          sz \in SizeSamples, pat \in PatternSamples :
            msg = SampleMsg(c, d, o, sz, pat)
    /\ wire = <<>>
    /\ received = NoResult

\* sendMapleMessage(msg) on a connected client
SendMapleMessage ==
    /\ codec_pc = "frame"
    /\ wire' = EncodeMapleMessage(msg)
    /\ codec_pc' = "encoded"
    /\ UNCHANGED <<msg, received>>
    /\ UNCHANGED <<supervisorVars, callerVars>>

\* lines a peer may send: up to MaxLineTokens tokens, one space between
\* them; the tokens are two well-formed bytes, a token with no hex digit
\* in front and a token of three digits
TokenSamples == {<<"0","1">>, <<"A","B">>, <<"G","1">>, <<"1","2","3">>}

\* the tokens of a sequence joined by single spaces
RECURSIVE Join(_)
Join(toks) ==
    IF Len(toks) = 0 THEN <<>>
    ELSE IF Len(toks) = 1 THEN toks[1]
    ELSE LET mid == Len(toks) \div 2
         IN  Join(SubSeq(toks, 1, mid)) \o <<" ">> \o Join(SubSeq(toks, mid + 1, Len(toks)))

ShortLines ==
    {Join(toks) : toks \in UNION {[1 .. n -> TokenSamples] : n \in 0 .. MaxLineTokens}}

\* lines of about sizeof(MapleMsg) tokens "ff"
LongLines ==
    {Join([k \in 1 .. n |-> <<"f","f">>]) :
        n \in (SIZEOF_MAPLEMSG - 1) .. (SIZEOF_MAPLEMSG + 2)}

LineSamples == ShortLines \cup LongLines

\* a line has arrived for receiveMapleMessage; msg is the caller's MapleMsg
DecodeInit ==
    /\ codec_pc = "line"
    /\ msg = <<>>
    /\ \E line \in LineSamples : wire = line \o <<"\r", "\n">>
    /\ received = NoResult

\* receiveMapleMessage() of the line the peer sent (in CodecSpec the peer
\* echoes the line back)
ReceiveMapleMessage ==
    /\ codec_pc \in {"encoded", "line"}
    /\ received' = DecodeMapleMessage(StripTerminator(wire))
    /\ codec_pc' = "decoded"
    /\ UNCHANGED <<msg, wire>>
    /\ UNCHANGED <<supervisorVars, callerVars>>

CodecNext ==
    \/ SendMapleMessage
    \/ ReceiveMapleMessage

(***************************************************************************)
(* Operations of the supervisor                                            *)
(***************************************************************************)
\* the socket of the client after a call that left it as client c2
PeerAfter(c2, connect) ==
    IF c2.socket_fd = INVALID_SOCKET THEN "none"
    ELSE IF connect = "ok" /\ ~client.connected THEN "open"
    ELSE peer

RxAfter(c2, connect) ==
    IF c2.socket_fd = INVALID_SOCKET THEN 0
    ELSE IF connect = "ok" /\ ~client.connected THEN 0
    ELSE rx

RecordWaits(r) ==
    IF r.connect = "ok" THEN <<>>
    ELSE IF r.entered /\ r.state = RECONNECTING /\ Len(waits) < MaxWaits
    THEN Append(waits, r.backoff)
    ELSE waits

\* history: a call as the next call remembers it
NoCall == [name |-> "none", arg |-> FALSE, from |-> DISABLED, fd |-> INVALID_SOCKET]
Call(o) == [name |-> o.name, arg |-> o.arg, from |-> o.from, fd |-> o.fd]

\* NetworkVmuManager(env_cb): enterState(DISABLED) and the member initialisers.
\* last_health_check is the clock's epoch, any number of seconds ago.
SupervisorInit ==
    /\ current_state = DISABLED
    /\ enabled = FALSE
    /\ backoff_seconds = 1
    /\ timeInState = 0
    /\ sinceHealthCheck \in 0 .. HEALTH_CHECK_INTERVAL_SECONDS
    /\ client = NoClient
    /\ openFds = {}
    /\ peer = "none"
    /\ rx = 0
    /\ notifications = <<>>
    /\ op = [name |-> "none", arg |-> FALSE, from |-> DISABLED, connect |-> "none",
             fd |-> INVALID_SOCKET, prev |-> NoCall]
    /\ hist = [connectOk |-> FALSE, connectFailed |-> FALSE, disabled |-> FALSE,
               disabledAfterFailure |-> FALSE, sessionConnected |-> FALSE,
               unhealthy |-> FALSE, ticks |-> 0]
    /\ waits = <<>>

\* the part of a call's effect that setEnabled() and update() share
Apply(r) ==
    /\ current_state' = r.state
    /\ backoff_seconds' = r.backoff
    /\ timeInState' = IF r.entered THEN 0 ELSE timeInState
    /\ sinceHealthCheck' = IF r.probed THEN 0 ELSE sinceHealthCheck
    /\ client' = r.client
    /\ openFds' = r.fds
    /\ peer' = PeerAfter(r.client, r.connect)
    /\ rx' = RxAfter(r.client, r.connect)
    /\ notifications' = notifications \o r.msgs

\* what setEnabled(enable) does to the members, the client and the socket
SetEnabledEffect(enable) ==
    /\ enabled' = enable
    /\ Apply(SetEnabledResult(enable))

\* setEnabled(enable)
SetEnabled(enable) ==
    LET r == SetEnabledResult(enable)
    IN  /\ SetEnabledEffect(enable)
        /\ op' = [name |-> "setEnabled", arg |-> enable, from |-> current_state,
                  connect |-> "none", fd |-> client.socket_fd, prev |-> Call(op)]
        /\ hist' = [hist EXCEPT
                      !.disabled = @ \/ (~enable /\ current_state # DISABLED),
                      !.disabledAfterFailure =
                          @ \/ (~enable /\ current_state # DISABLED /\ hist.connectFailed),
                      !.sessionConnected = IF r.entered THEN FALSE ELSE @,
                      !.ticks = IF r.entered THEN 0 ELSE @]
        /\ waits' = IF r.entered THEN <<>> ELSE waits
        /\ UNCHANGED <<codecVars, callerVars>>

\* what update() does to the members, the client and the socket
UpdateEffect(outcome) ==
    /\ Len(notifications) + Len(UpdateResult(outcome).msgs) <= MaxNotes
    /\ enabled' = enabled
    /\ Apply(UpdateResult(outcome))

\* update(), with the outcome of the system calls of connect() should it run
Update(outcome) ==
    LET r == UpdateResult(outcome)
    IN  /\ UpdateEffect(outcome)
        /\ op' = [name |-> "update", arg |-> FALSE, from |-> current_state,
                  connect |-> r.connect, fd |-> client.socket_fd, prev |-> Call(op)]
        /\ hist' = [hist EXCEPT
                      !.connectOk = @ \/ r.connect = "ok",
                      !.connectFailed = @ \/ r.connect = "fail",
                      !.sessionConnected = @ \/ r.state = CONNECTED,
                      !.unhealthy = @ \/ (r.probed /\ r.state = RECONNECTING),
                      !.ticks = Min(@ + 1, MaxTicks)]
        /\ waits' = RecordWaits(r)
        /\ UNCHANGED <<codecVars, callerVars>>

\* the largest age of state_entered_time that matters: the backoff in
\* RECONNECTING, where update() compares it, and the health-check interval
\* in CONNECTED, where the probes are timed
TimeCap ==
    IF current_state = RECONNECTING
    THEN Min(backoff_seconds, MAX_BACKOFF_SECONDS)
    ELSE IF current_state = CONNECTED THEN HEALTH_CHECK_INTERVAL_SECONDS
    ELSE 0

\* one second passes
Tick ==
    /\ timeInState' = Min(timeInState + 1, TimeCap)
    /\ sinceHealthCheck' = Min(sinceHealthCheck + 1, HEALTH_CHECK_INTERVAL_SECONDS)
    /\ UNCHANGED <<current_state, enabled, backoff_seconds, client, openFds, peer,
                   rx, notifications, op, hist, waits>>
    /\ UNCHANGED <<codecVars, callerVars>>

\* the peer writes data to the connection
PeerSend ==
    /\ peer = "open"
    /\ rx < MaxRx
    /\ rx' = rx + 1
    /\ UNCHANGED <<current_state, enabled, backoff_seconds, timeInState,
                   sinceHealthCheck, client, openFds, peer, notifications, op,
                   hist, waits>>
    /\ UNCHANGED <<codecVars, callerVars>>

\* the peer closes its end (FIN); data already sent stays readable
PeerClose ==
    /\ peer = "open"
    /\ peer' = "closed"
    /\ UNCHANGED <<current_state, enabled, backoff_seconds, timeInState,
                   sinceHealthCheck, client, openFds, rx, notifications, op,
                   hist, waits>>
    /\ UNCHANGED <<codecVars, callerVars>>

\* the connection is aborted (RST): unread data is dropped
PeerReset ==
    /\ peer \in {"open", "closed"}
    /\ peer' = "reset"
    /\ rx' = 0
    /\ UNCHANGED <<current_state, enabled, backoff_seconds, timeInState,
                   sinceHealthCheck, client, openFds, notifications, op,
                   hist, waits>>
    /\ UNCHANGED <<codecVars, callerVars>>

\* receiveRawMessage() called on the supervisor's client by the device bus:
\* it reads k buffered segments; either the line ends there (CR LF) or it
\* reads on and meets the end of stream, a hard error, or nothing ("timeout")
ReceiveRaw(k, lineEnds) ==
    /\ client.exists /\ client.connected
    /\ k \in 0 .. rx
    /\ lineEnds => k >= 1
    /\ ~lineEnds => k = rx
    /\ peer = "reset" => k = 0
    /\ rx' = rx - k
    /\ client' = IF ~lineEnds /\ PeekResult(peer, 0) \in {"zero", "error"}
                 THEN [client EXCEPT !.connected = FALSE] ELSE client
    /\ UNCHANGED <<current_state, enabled, backoff_seconds, timeInState,
                   sinceHealthCheck, openFds, peer, notifications, op, hist, waits>>
    /\ UNCHANGED <<codecVars, callerVars>>

\* sendRawMessage() called on the supervisor's client by the device bus:
\* send() fails hard on an aborted connection
SendRaw ==
    /\ client.exists /\ client.connected
    /\ client' = IF peer = "reset" THEN [client EXCEPT !.connected = FALSE] ELSE client
    /\ UNCHANGED <<current_state, enabled, backoff_seconds, timeInState,
                   sinceHealthCheck, openFds, peer, rx, notifications, op, hist, waits>>
    /\ UNCHANGED <<codecVars, callerVars>>

(***************************************************************************)
(* The client used directly, through getClient()                           *)
(***************************************************************************)
\* the supervisor after setEnabled(true), update(), update() on a fresh
\* manager: the first connect() was made and succeeded (ok) or failed
AfterFirstAttempt(ok) ==
    /\ current_state = IF ok THEN CONNECTED ELSE RECONNECTING
    /\ enabled = TRUE
    /\ backoff_seconds = 1
    /\ timeInState = 0
    /\ sinceHealthCheck = 0
    /\ client = IF ok THEN [exists |-> TRUE, socket_fd |-> 1, connected |-> TRUE]
                ELSE NewClient
    /\ openFds = IF ok THEN {1} ELSE {}
    /\ peer = IF ok THEN "open" ELSE "none"
    /\ rx = 0
    /\ notifications = IF ok THEN <<MsgConnected>> ELSE <<>>
    /\ op = [name |-> "update", arg |-> FALSE, from |-> CONNECTING,
             connect |-> IF ok THEN "ok" ELSE "fail", fd |-> INVALID_SOCKET,
             prev |-> [name |-> "update", arg |-> FALSE, from |-> DISCONNECTED,
                       fd |-> INVALID_SOCKET]]
    /\ hist = [connectOk |-> ok, connectFailed |-> ~ok, disabled |-> FALSE,
               disabledAfterFailure |-> FALSE, sessionConnected |-> ok,
               unhealthy |-> FALSE, ticks |-> 2]
    /\ waits = IF ok THEN <<>> ELSE <<1>>

\* getClient()->connect()
ClientConnect(outcome) ==
    /\ client.exists
    /\ LET r == Connect(client, openFds, outcome)
           tag == IF r.result THEN "ok" ELSE "fail"
       IN  /\ client' = r.client
           /\ openFds' = r.fds
           /\ peer' = PeerAfter(r.client, tag)
           /\ rx' = RxAfter(r.client, tag)
           /\ last_call' = [name |-> "connect", result |-> r.result,
                            before |-> client, fdsBefore |-> openFds,
                            after |-> r.client, fdsAfter |-> r.fds,
                            peek |-> "none", prev |-> last_call.name]
    /\ UNCHANGED <<current_state, enabled, backoff_seconds, timeInState,
                   sinceHealthCheck, notifications, op, hist, waits>>
    /\ UNCHANGED <<codecVars, busVars, rawVars, frameVars>>

\* getClient()->disconnect()
ClientDisconnect ==
    /\ client.exists
    /\ LET d == Disconnect(client, openFds)
       IN  /\ client' = d.client
           /\ openFds' = d.fds
           /\ peer' = PeerAfter(d.client, "none")
           /\ rx' = RxAfter(d.client, "none")
           /\ last_call' = [name |-> "disconnect", result |-> TRUE,
                            before |-> client, fdsBefore |-> openFds,
                            after |-> d.client, fdsAfter |-> d.fds,
                            peek |-> "none", prev |-> last_call.name]
    /\ UNCHANGED <<current_state, enabled, backoff_seconds, timeInState,
                   sinceHealthCheck, notifications, op, hist, waits>>
    /\ UNCHANGED <<codecVars, busVars, rawVars, frameVars>>

\* getClient()->isConnected()
ClientIsConnected ==
    /\ client.exists
    /\ LET r == IsConnected(client, peer, rx)
       IN  /\ client' = r.client
           /\ last_call' = [name |-> "isConnected", result |-> r.result,
                            before |-> client, fdsBefore |-> openFds,
                            after |-> r.client, fdsAfter |-> openFds,
                            peek |-> r.peek, prev |-> last_call.name]
    /\ UNCHANGED <<current_state, enabled, backoff_seconds, timeInState,
                   sinceHealthCheck, openFds, peer, rx, notifications, op,
                   hist, waits>>
    /\ UNCHANGED <<codecVars, busVars, rawVars, frameVars>>

ClientNext ==
    \/ \E outcome \in ConnectOutcomes : ClientConnect(outcome)
    \/ ClientDisconnect
    \/ ClientIsConnected
    \/ PeerSend
    \/ PeerClose
    \/ PeerReset
    \/ \E k \in 0 .. MaxRx, lineEnds \in BOOLEAN : ReceiveRaw(k, lineEnds)
    \/ SendRaw

(***************************************************************************)
(* Frame exchanges by concurrent callers                                   *)
(*                                                                         *)
(* Each caller makes exchanges: sendMapleMessage(request), and once that   *)
(* has returned true, receiveMapleMessage(response).  A line crosses the   *)
(* socket in LineChunks pieces, one per step of the send()/recv() loop.    *)
(* The peer answers each terminated line it gets, in order.                *)
(***************************************************************************)
\* the members of the manager and the handles, which an exchange leaves alone
managerVars == <<current_state, enabled, backoff_seconds, timeInState,
                 sinceHealthCheck, openFds, notifications, op, hist, waits>>

\* mutant of LockGuard: the call takes no mutex
LockGuard_NoMutex(t) == TRUE

\* std::lock_guard<std::mutex> lock(client_mutex) can be constructed
LockGuard(t) == client_mutex = "free"

\* the lock_guard's destructor
Unlock(t) == IF client_mutex = t THEN "free" ELSE client_mutex

InFlight(t) == caller_pc[t] \in {"send_lock", "send", "recv_lock", "recv"}

\* the call returns `value': the lock is released
Return(t, value, pc) ==
    /\ caller_pc' = [caller_pc EXCEPT ![t] = pc]
    /\ ret' = [ret EXCEPT ![t] = value]
    /\ progress' = [progress EXCEPT ![t] = 0]
    /\ client_mutex' = Unlock(t)

\* exchanges started so far, by all callers
ExchangesStarted ==
    LET RECURSIVE Sum(_)
        Sum(S) == IF S = {} THEN 0
                  ELSE LET t == CHOOSE u \in S : TRUE
                       IN  exchanges[t] + Sum(S \ {t})
    IN  Sum(Callers)

\* the caller calls sendMapleMessage(): it waits for client_mutex
CallSendMapleMessage(t) ==
    /\ client.exists
    /\ caller_pc[t] = "idle"
    /\ ExchangesStarted < MaxExchanges
    /\ caller_pc' = [caller_pc EXCEPT ![t] = "send_lock"]
    /\ exchanges' = [exchanges EXCEPT ![t] = @ + 1]
    /\ UNCHANGED <<client_mutex, progress, socket_out, socket_in, answered,
                   read_log, ret, reply, aborted>>
    /\ UNCHANGED <<managerVars, client, peer, rx, codecVars, last_call, rawVars, frameVars>>

\* the caller calls receiveMapleMessage() after its request was sent
CallReceiveMapleMessage(t) ==
    /\ client.exists
    /\ caller_pc[t] = "between"
    /\ caller_pc' = [caller_pc EXCEPT ![t] = "recv_lock"]
    /\ UNCHANGED <<client_mutex, progress, exchanges, socket_out, socket_in,
                   answered, read_log, ret, reply, aborted>>
    /\ UNCHANGED <<managerVars, client, peer, rx, codecVars, last_call, rawVars, frameVars>>

\* mutant of ConnectedCheck: the call goes on whatever the flag says
ConnectedCheck_Skipped(c) == TRUE

\* "if (!connected) return false" lets the call go on
ConnectedCheck(c) == c.connected

\* lock_guard, then "if (!connected) return false", in either function
EnterCall(t) ==
    /\ client.exists
    /\ caller_pc[t] \in {"send_lock", "recv_lock"}
    /\ LockGuard(t)
    /\ IF ConnectedCheck(client)
       THEN /\ client_mutex' = t
            /\ caller_pc' = [caller_pc EXCEPT
                               ![t] = IF @ = "send_lock" THEN "send" ELSE "recv"]
            /\ progress' = [progress EXCEPT ![t] = 0]
            /\ ret' = ret
       ELSE Return(t, "false", "idle")
    /\ UNCHANGED <<exchanges, socket_out, socket_in, answered, read_log, reply, aborted>>
    /\ UNCHANGED <<managerVars, client, peer, rx, codecVars, last_call, rawVars, frameVars>>

\* sendRawMessage(): send() takes the next piece of the line; after the last
\* piece the call returns true
SendChunk(t) ==
    /\ client.exists
    /\ caller_pc[t] = "send"
    /\ peer # "reset"
    /\ socket_out' = Append(socket_out,
                            [by |-> t, n |-> exchanges[t], part |-> progress[t] + 1])
    /\ IF progress[t] + 1 = LineChunks
       THEN Return(t, "true", "between")
       ELSE /\ progress' = [progress EXCEPT ![t] = @ + 1]
            /\ UNCHANGED <<caller_pc, ret, client_mutex>>
    /\ UNCHANGED <<exchanges, socket_in, answered, read_log, reply, aborted>>
    /\ UNCHANGED <<managerVars, client, peer, rx, codecVars, last_call, rawVars, frameVars>>

\* sendRawMessage() or receiveRawMessage(): the socket would block and the
\* 5 ms have passed: the call returns false, connected stays set
Timeout(t) ==
    /\ client.exists
    /\ \/ caller_pc[t] = "send"
       \/ caller_pc[t] = "recv" /\ socket_in = <<>> /\ peer = "open"
    /\ Return(t, "false", "idle")
    /\ aborted' = aborted \cup {<<t, exchanges[t], caller_pc[t]>>}
    /\ UNCHANGED <<exchanges, socket_out, socket_in, answered, read_log, reply>>
    /\ UNCHANGED <<managerVars, client, peer, rx, codecVars, last_call, rawVars, frameVars>>

\* sendRawMessage() or receiveRawMessage(): send()/recv() returns 0 or fails
\* with a hard error: connected is cleared and the call returns false
IoError(t) ==
    /\ client.exists
    /\ \/ caller_pc[t] = "send" /\ peer \in {"closed", "reset"}
       \/ caller_pc[t] = "recv" /\ socket_in = <<>> /\ peer = "closed"
       \/ caller_pc[t] = "recv" /\ peer = "reset"
    /\ client' = [client EXCEPT !.connected = FALSE]
    /\ Return(t, "false", "idle")
    /\ aborted' = aborted \cup {<<t, exchanges[t], caller_pc[t]>>}
    /\ UNCHANGED <<exchanges, socket_out, socket_in, answered, read_log, reply>>
    /\ UNCHANGED <<managerVars, peer, rx, codecVars, last_call, rawVars, frameVars>>

\* receiveRawMessage(): recv() reads the next piece; if it ends with CR LF
\* the line is decoded and the call returns true
RecvChunk(t) ==
    /\ client.exists
    /\ caller_pc[t] = "recv"
    /\ peer # "reset"
    /\ socket_in # <<>>
    /\ socket_in' = Tail(socket_in)
    /\ rx' = Len(Tail(socket_in))
    /\ read_log' = Append(read_log,
                          [by |-> t, n |-> exchanges[t], chunk |-> Head(socket_in)])
    /\ IF Head(socket_in).part = LineChunks
       THEN /\ Return(t, "true", "idle")
            /\ reply' = [reply EXCEPT ![t] = [for |-> Head(socket_in).for,
                                              n |-> Head(socket_in).n]]
       ELSE /\ progress' = [progress EXCEPT ![t] = @ + 1]
            /\ UNCHANGED <<caller_pc, ret, client_mutex, reply>>
    /\ UNCHANGED <<exchanges, socket_out, answered, aborted>>
    /\ UNCHANGED <<managerVars, client, peer, codecVars, last_call, rawVars, frameVars>>

\* the pieces of socket_out that end a line
Terminators ==
    LET EndsLine(i) == socket_out[i].part = LineChunks
    IN  SelectSeq(Indices(socket_out), EndsLine)

\* the peer sends the next piece of its answer to the lines it has got in
\* full; an answer is for the caller whose piece ended the line
PeerRespond ==
    /\ peer = "open"
    /\ answered < Len(Terminators) * LineChunks
    /\ LET request == socket_out[Terminators[(answered \div LineChunks) + 1]]
           piece == [for |-> request.by, n |-> request.n,
                     part |-> (answered % LineChunks) + 1]
       IN  /\ socket_in' = Append(socket_in, piece)
           /\ rx' = Len(socket_in) + 1
    /\ answered' = answered + 1
    /\ UNCHANGED <<client_mutex, caller_pc, progress, exchanges, socket_out,
                   read_log, ret, reply, aborted>>
    /\ UNCHANGED <<managerVars, client, peer, codecVars, last_call, rawVars, frameVars>>

\* a caller goes on with a client that setEnabled(false) has destroyed
\* (client.reset()): undefined behaviour, whose outcome may be any
UseDestroyed(t, outcome) ==
    /\ ~client.exists
    /\ InFlight(t) \/ caller_pc[t] = "between"
    /\ caller_pc' = [caller_pc EXCEPT
                       ![t] = IF outcome = "crash" THEN "crashed" ELSE "idle"]
    /\ ret' = [ret EXCEPT ![t] = outcome]
    /\ UNCHANGED <<client_mutex, progress, exchanges, socket_out, socket_in,
                   answered, read_log, reply, aborted>>
    /\ UNCHANGED <<managerVars, client, peer, rx, codecVars, last_call, rawVars, frameVars>>

WireNext ==
    \/ \E t \in Callers : CallSendMapleMessage(t)
    \/ \E t \in Callers : CallReceiveMapleMessage(t)
    \/ \E t \in Callers : EnterCall(t)
    \/ \E t \in Callers : SendChunk(t)
    \/ \E t \in Callers : RecvChunk(t)
    \/ \E t \in Callers : Timeout(t)
    \/ \E t \in Callers : IoError(t)
    \/ PeerRespond
    \/ PeerClose

CancelNext ==
    \/ WireNext
    \/ SetEnabled(FALSE)
    \/ \E t \in Callers, outcome \in {"false", "true", "crash"} : UseDestroyed(t, outcome)

(***************************************************************************)
(* sendRawMessage / receiveRawMessage, one call step by step               *)
(***************************************************************************)
\* receiveRawMessage gives up on a response longer than this
MAX_LINE_LENGTH == 1024

\* mutant of ReceiveRawStep: a timeout clears connected like a hard error
ReceiveRawStep_TimeoutDisconnects(c, response, r, ch) ==
    IF r = "byte"
    THEN LET grown == Append(response, ch)
         IN  IF /\ Len(grown) >= 2
                /\ SubSeq(grown, Len(grown) - 1, Len(grown)) = <<"\r", "\n">>
             THEN [client |-> c, response |-> StripTerminator(grown),
                   done |-> TRUE, result |-> TRUE]
             ELSE IF Len(grown) > MAX_LINE_LENGTH
             THEN [client |-> [c EXCEPT !.connected = FALSE], response |-> grown,
                   done |-> TRUE, result |-> FALSE]
             ELSE [client |-> c, response |-> grown, done |-> FALSE, result |-> FALSE]
    ELSE IF r = "wouldblock"
    THEN [client |-> c, response |-> response, done |-> FALSE, result |-> FALSE]
    ELSE [client |-> [c EXCEPT !.connected = FALSE], response |-> response,
          done |-> TRUE, result |-> FALSE]

\* mutant of ReceiveRawStep: the length of the response is not checked
ReceiveRawStep_NoLimit(c, response, r, ch) ==
    IF r = "byte"
    THEN LET grown == Append(response, ch)
         IN  IF /\ Len(grown) >= 2
                /\ SubSeq(grown, Len(grown) - 1, Len(grown)) = <<"\r", "\n">>
             THEN [client |-> c, response |-> StripTerminator(grown),
                   done |-> TRUE, result |-> TRUE]
             ELSE [client |-> c, response |-> grown, done |-> FALSE, result |-> FALSE]
    ELSE IF r \in {"zero", "error"}
    THEN [client |-> [c EXCEPT !.connected = FALSE], response |-> response,
          done |-> TRUE, result |-> FALSE]
    ELSE IF r = "wouldblock"
    THEN [client |-> c, response |-> response, done |-> FALSE, result |-> FALSE]
    ELSE [client |-> c, response |-> response, done |-> TRUE, result |-> FALSE]

\* mutant of ReceiveRawStep: the deadline is not looked at
ReceiveRawStep_NeverGivesUp(c, response, r, ch) ==
    IF r = "byte"
    THEN LET grown == Append(response, ch)
         IN  IF /\ Len(grown) >= 2
                /\ SubSeq(grown, Len(grown) - 1, Len(grown)) = <<"\r", "\n">>
             THEN [client |-> c, response |-> StripTerminator(grown),
                   done |-> TRUE, result |-> TRUE]
             ELSE IF Len(grown) > MAX_LINE_LENGTH
             THEN [client |-> [c EXCEPT !.connected = FALSE], response |-> grown,
                   done |-> TRUE, result |-> FALSE]
             ELSE [client |-> c, response |-> grown, done |-> FALSE, result |-> FALSE]
    ELSE IF r \in {"zero", "error"}
    THEN [client |-> [c EXCEPT !.connected = FALSE], response |-> response,
          done |-> TRUE, result |-> FALSE]
    ELSE [client |-> c, response |-> response, done |-> FALSE, result |-> FALSE]

\* one turn of the loop of receiveRawMessage: recv() returns the byte ch
\* (r = "byte"), returns 0 ("zero"), fails with a hard error ("error"), or
\* would block, before the 5 ms are over ("wouldblock") or after ("timeout")
ReceiveRawStep(c, response, r, ch) ==
    IF r = "byte"
    THEN LET grown == Append(response, ch)
         IN  IF /\ Len(grown) >= 2
                /\ SubSeq(grown, Len(grown) - 1, Len(grown)) = <<"\r", "\n">>
             THEN [client |-> c, response |-> StripTerminator(grown),
                   done |-> TRUE, result |-> TRUE]
             ELSE IF Len(grown) > MAX_LINE_LENGTH
             THEN [client |-> [c EXCEPT !.connected = FALSE], response |-> grown,
                   done |-> TRUE, result |-> FALSE]
             ELSE [client |-> c, response |-> grown, done |-> FALSE, result |-> FALSE]
    ELSE IF r \in {"zero", "error"}
    THEN [client |-> [c EXCEPT !.connected = FALSE], response |-> response,
          done |-> TRUE, result |-> FALSE]
    ELSE IF r = "wouldblock"
    THEN [client |-> c, response |-> response, done |-> FALSE, result |-> FALSE]
    ELSE [client |-> c, response |-> response, done |-> TRUE, result |-> FALSE]

\* one turn of the loop of sendRawMessage: send() takes `taken' bytes
\* (r = "bytes"), returns 0, fails hard, or would block, before the 5 ms are
\* over ("wouldblock") or after ("timeout")
SendRawStep(c, total_sent, length, r, taken) ==
    IF r = "bytes"
    THEN [client |-> c, total_sent |-> total_sent + taken,
          done |-> total_sent + taken >= length, result |-> TRUE]
    ELSE IF r \in {"zero", "error"}
    THEN [client |-> [c EXCEPT !.connected = FALSE], total_sent |-> total_sent,
          done |-> TRUE, result |-> FALSE]
    ELSE IF r = "wouldblock"
    THEN [client |-> c, total_sent |-> total_sent, done |-> FALSE, result |-> TRUE]
    ELSE [client |-> c, total_sent |-> total_sent, done |-> TRUE, result |-> FALSE]

\* byte streams a peer may send: a run of "x", then one of the tails
Fill(n) == [i \in 1 .. n |-> "x"]

FillSamples ==
    {0, 1, MAX_LINE_LENGTH - 2, MAX_LINE_LENGTH - 1, MAX_LINE_LENGTH, MAX_LINE_LENGTH + 1}

TailSamples ==
    { <<>>, <<"\r", "\n">>, <<"\r">>, <<"\n", "\r", "\n">>,
      <<"\r", "x", "\r", "\n">>, <<"\r", "\n", "y", "\r", "\n">> }

StreamSamples == {Fill(n) \o t : n \in FillSamples, t \in TailSamples}

\* lengths of the messages sent: a frame of no data words and one of 255
MessageSamples == {3 * HEADER_SIZE + 1, 3 * SIZEOF_MAPLEMSG + 1}

\* values of MapleMsg::size of the frames a peer running sendMapleMessage
\* sends: none, the last that fits a line of MAX_LINE_LENGTH, the next, all
FrameSizeSamples ==
    {0, (MAX_LINE_LENGTH - 3 * HEADER_SIZE) \div 12,
        (MAX_LINE_LENGTH - 3 * HEADER_SIZE) \div 12 + 1, 255}

\* the line sendMapleMessage makes of a frame of `size' words
FrameLine(size) == EncodeMapleMessage(SampleMsg(9, 1, 0, size, 1))

\* a caller is about to call receiveRawMessage(), with the bytes the peer
\* will deliver (some bytes, or a frame as sendMapleMessage writes it), or
\* sendRawMessage() with a message
RawInit ==
    \/ /\ \E stream \in StreamSamples :
            raw = [pc |-> "call", call |-> "recv", message |-> 0, total_sent |-> 0,
                   stream |-> stream, frame_size |-> -1, pos |-> 0,
                   response |-> <<>>, late |-> FALSE, result |-> "none",
                   why |-> "none"]
    \/ /\ \E size \in FrameSizeSamples :
            raw = [pc |-> "call", call |-> "recv", message |-> 0, total_sent |-> 0,
                   stream |-> FrameLine(size), frame_size |-> size, pos |-> 0,
                   response |-> <<>>, late |-> FALSE, result |-> "none",
                   why |-> "none"]
    \/ /\ \E length \in MessageSamples :
            raw = [pc |-> "call", call |-> "send", message |-> length, total_sent |-> 0,
                   stream |-> <<>>, frame_size |-> -1, pos |-> 0,
                   response |-> <<>>, late |-> FALSE, result |-> "none",
                   why |-> "none"]

\* entry of either function: "if (!connected) return false"; response.clear()
RawEnter ==
    /\ raw.pc = "call"
    /\ raw' = IF client.connected
              THEN [raw EXCEPT !.pc = "loop"]
              ELSE [raw EXCEPT !.pc = "done", !.result = "false",
                               !.why = "not_connected"]
    /\ UNCHANGED <<managerVars, client, peer, rx, codecVars, last_call, busVars, frameVars>>

\* what recv() may return: the next byte if it has arrived, 0 once the peer
\* has closed after its last byte, a hard error, or nothing in time
RecvOutcomes ==
    (IF raw.pos < Len(raw.stream) THEN {"byte"} ELSE {"zero"})
        \cup {"error"} \cup (IF raw.late THEN {"timeout"} ELSE {"wouldblock"})

\* the steady clock passes start_time + TIMEOUT_MS while the loop runs
RawTick ==
    /\ raw.pc = "loop"
    /\ ~raw.late
    /\ raw' = [raw EXCEPT !.late = TRUE]
    /\ UNCHANGED <<managerVars, client, peer, rx, codecVars, last_call, busVars, frameVars>>

\* one turn of the loop of receiveRawMessage()
RawReceive(r) ==
    /\ raw.pc = "loop"
    /\ raw.call = "recv"
    /\ r \in RecvOutcomes
    /\ LET ch == IF r = "byte" THEN raw.stream[raw.pos + 1] ELSE "x"
           step == ReceiveRawStep(client, raw.response, r, ch)
       IN  /\ client' = step.client
           /\ raw' = [raw EXCEPT
                        !.pos = IF r = "byte" THEN @ + 1 ELSE @,
                        !.response = step.response,
                        !.pc = IF step.done THEN "done" ELSE "loop",
                        !.result = IF ~step.done THEN "none"
                                   ELSE IF step.result THEN "true" ELSE "false",
                        !.why = IF ~step.done THEN "none"
                                ELSE IF step.result THEN "line"
                                ELSE IF r = "byte" THEN "too_long" ELSE r]
    /\ UNCHANGED <<managerVars, peer, rx, codecVars, last_call, busVars, frameVars>>

\* one turn of the loop of sendRawMessage(): send() takes one byte or all
\* that is left
RawSend(r, all) ==
    /\ raw.pc = "loop"
    /\ raw.call = "send"
    /\ r \in {"bytes", "zero", "error"}
              \cup (IF raw.late THEN {"timeout"} ELSE {"wouldblock"})
    /\ LET taken == IF all THEN raw.message - raw.total_sent ELSE 1
           step == SendRawStep(client, raw.total_sent, raw.message, r, taken)
       IN  /\ client' = step.client
           /\ raw' = [raw EXCEPT
                        !.total_sent = step.total_sent,
                        !.pc = IF step.done THEN "done" ELSE "loop",
                        !.result = IF ~step.done THEN "none"
                                   ELSE IF step.result THEN "true" ELSE "false",
                        !.why = IF ~step.done THEN "none"
                                ELSE IF step.result THEN "sent" ELSE r]
    /\ UNCHANGED <<managerVars, peer, rx, codecVars, last_call, busVars, frameVars>>

RawOutcomes == {"zero", "error", "wouldblock", "timeout"}

RawNext ==
    \/ RawEnter
    \/ RawTick
    \/ \E r \in {"byte"} \cup RawOutcomes : RawReceive(r)
    \/ \E r \in {"bytes"} \cup RawOutcomes, all \in BOOLEAN : RawSend(r, all)

SupervisorNext ==
    \/ \E enable \in BOOLEAN : SetEnabled(enable)
    \/ \E outcome \in ConnectOutcomes : Update(outcome)
    \/ Tick
    \/ PeerSend
    \/ PeerClose
    \/ PeerReset
    \/ \E k \in 0 .. MaxRx, lineEnds \in BOOLEAN : ReceiveRaw(k, lineEnds)
    \/ SendRaw

vars == <<supervisorVars, codecVars, callerVars>>

\* the supervisor, its client and the peer
Init == SupervisorInit /\ CodecIdle /\ CallersIdle

Next == SupervisorNext

Spec == Init /\ [][Next]_vars

\* the client used directly while the supervisor is not called
ClientSpecInit ==
    /\ \E ok \in BOOLEAN : AfterFirstAttempt(ok)
    /\ CodecIdle
    /\ CallersIdle

ClientSpec == ClientSpecInit /\ [][ClientNext]_vars

\* two callers exchange frames over the connected client while the
\* supervisor is not called
WireSpecInit ==
    /\ AfterFirstAttempt(TRUE)
    /\ CodecIdle
    /\ CallersIdle

WireSpec == WireSpecInit /\ [][WireNext]_vars

\* the same, and the feature may be disabled meanwhile
CancelSpec == WireSpecInit /\ [][CancelNext]_vars

\* one raw call on the client the first attempt left, connected or not
RawSpecInit ==
    /\ \E ok \in BOOLEAN : AfterFirstAttempt(ok)
    /\ CodecIdle
    /\ last_call = NoClientCall
    /\ BusIdle
    /\ RawInit
    /\ FrameIdle

RawSpec == RawSpecInit /\ [][RawNext]_vars

\* the same with the thread of the call running on and the clock advancing:
\* the call is entered, the deadline passes, and a loop that meets a socket
\* that would block after the deadline takes its return
RawLiveSpec ==
    /\ RawSpec
    /\ WF_vars(RawEnter)
    /\ WF_vars(RawTick)
    /\ WF_vars(RawReceive("timeout"))
    /\ WF_vars(\E all \in BOOLEAN : RawSend("timeout", all))

\* the codec alone, one sample frame per behaviour
SupervisorIdle == SupervisorInit /\ sinceHealthCheck = 0

CodecSpecInit == SupervisorIdle /\ CodecInit /\ CallersIdle

CodecSpec == CodecSpecInit /\ [][CodecNext]_vars

\* receiveMapleMessage alone, one received line per behaviour
DecodeSpecInit == SupervisorIdle /\ DecodeInit /\ CallersIdle

DecodeNext == ReceiveMapleMessage

DecodeSpec == DecodeSpecInit /\ [][DecodeNext]_vars

(***************************************************************************)
(* Properties of the supervisor                                            *)
(***************************************************************************)
\* the last call was update(), and the call before it setEnabled(false)
DisabledThenUpdated ==
    op.name = "update" /\ op.prev.name = "setEnabled" /\ ~op.prev.arg

\* C1: disable overrides all.  Whatever the state, backoff and timers were,
\* after setEnabled(false) and then one update() the state is DISABLED, the
\* supervisor holds no client, and the socket handle the client held before
\* the setEnabled(false) call is closed.
C1_DisableOverridesAll ==
    DisabledThenUpdated =>
        /\ current_state = DISABLED
        /\ client = NoClient
        /\ op.prev.fd # INVALID_SOCKET => op.prev.fd \notin openFds

\* C1 happens: the feature was disabled during a RECONNECTING wait, the
\* client still holding the handle of the dropped connection, then update()
\* ran
C1_Witness ==
    /\ DisabledThenUpdated
    /\ op.prev.from = RECONNECTING
    /\ op.prev.fd # INVALID_SOCKET
    /\ current_state = DISABLED

\* C2: the state becomes CONNECTED only in an update() call that invoked
\* connect() and got true; no other step makes it CONNECTED.
C2_ConnectedOnlyAfterConnect ==
    [][ (current_state' = CONNECTED /\ current_state # CONNECTED)
          => (op'.name = "update" /\ op'.connect = "ok"
              /\ op'.from = current_state
              /\ current_state \in {CONNECTING, RECONNECTING}) ]_vars

\* C2 happens: CONNECTED was entered from RECONNECTING by a successful retry
C2_Witness ==
    /\ current_state = CONNECTED
    /\ op.name = "update" /\ op.connect = "ok" /\ op.from = RECONNECTING

\* the i-th value of 1, 2, 4, 8, 16, 30, 30, 30, ...
ExpectedWait(i) == Min(2 ^ (i - 1), MAX_BACKOFF_SECONDS)

\* the recorded waits are the first values of 1, 2, 4, 8, 16, 30, 30, ...
WaitsAsExpected == \A i \in 1 .. Len(waits) : waits[i] = ExpectedWait(i)

\* the wait in progress uses the backoff recorded last
WaitInForce ==
    (current_state = RECONNECTING /\ Len(waits) < MaxWaits)
        => (waits # <<>> /\ backoff_seconds = waits[Len(waits)])

\* C3: backoff sequence.  While the feature stays enabled from the first
\* failed attempt on, the backoff values of the successive RECONNECTING waits
\* are 1, 2, 4, 8, 16, 30, 30, ... and the sequence starts again at 1 after
\* a successful connect() (waits is emptied by a success).
C3_BackoffSequence ==
    ~hist.disabledAfterFailure => (WaitsAsExpected /\ WaitInForce)

\* C3 happens: after a success and a drop, the waits ran 1, 2, 4, ... up to
\* the cap and stayed there
C3_Witness ==
    /\ ~hist.disabledAfterFailure
    /\ hist.connectOk
    /\ current_state = RECONNECTING
    /\ Len(waits) >= 7
    /\ waits[1] = 1 /\ waits[6] = MAX_BACKOFF_SECONDS /\ waits[7] = MAX_BACKOFF_SECONDS

\* C4: backoff_seconds is always in [1, 30], and the product backoff_seconds * 2
\* that a failed retry computes is at most 60, far inside the range of int.
C4_BackoffInRange ==
    /\ backoff_seconds \in 1 .. MAX_BACKOFF_SECONDS
    /\ backoff_seconds * 2 <= 2 * MAX_BACKOFF_SECONDS

\* C4 happens: a retry failed while the backoff already was at the cap
C4_Witness ==
    /\ backoff_seconds = MAX_BACKOFF_SECONDS
    /\ op.name = "update" /\ op.connect = "fail" /\ op.from = RECONNECTING
    /\ Len(waits) >= 7 /\ waits[Len(waits) - 1] = MAX_BACKOFF_SECONDS

\* every connect() so far succeeded, the feature was not disabled again and
\* no liveness probe failed
HappyRun == ~hist.connectFailed /\ ~hist.disabled /\ ~hist.unhealthy

\* C5: happy path.  With a peer that accepts the connection, two update()
\* calls after setEnabled(true) the state is CONNECTED; exactly one
\* notification, "connected", has been shown by then, none before, and
\* further update() calls with a healthy peer show no other.
C5_HappyPath ==
    HappyRun =>
        /\ (enabled /\ hist.ticks >= 2) => current_state = CONNECTED
        /\ current_state = CONNECTED => notifications = <<MsgConnected>>
        /\ current_state # CONNECTED => notifications = <<>>

\* C5 happens: CONNECTED on the happy path, and update() ran again in it
C5_Witness ==
    /\ HappyRun
    /\ current_state = CONNECTED
    /\ op.name = "update" /\ op.from = CONNECTED
    /\ hist.ticks >= 3
    /\ notifications = <<MsgConnected>>

\* C6: peer unreachable.  While no connect() has succeeded the state is never
\* CONNECTED and nothing is shown; a failed connect() leaves the supervisor
\* in RECONNECTING, where it stays while the feature stays enabled, with
\* waits of 1, 2, 4, ... seconds.
C6_PeerUnreachable ==
    ~hist.connectOk =>
        /\ current_state # CONNECTED
        /\ notifications = <<>>
        /\ (op.name = "update" /\ op.connect = "fail")
              => (op.from \in {CONNECTING, RECONNECTING}
                  /\ current_state = RECONNECTING)
        /\ (hist.connectFailed /\ ~hist.disabledAfterFailure)
              => (current_state = RECONNECTING /\ waits # <<>> /\ WaitsAsExpected)

\* C6 happens: three connect() calls failed in a row
C6_Witness ==
    /\ ~hist.connectOk /\ hist.connectFailed /\ ~hist.disabledAfterFailure
    /\ current_state = RECONNECTING
    /\ waits = <<1, 2, 4>>
    /\ timeInState = 4

\* C7: mid-session drop.  In CONNECTED with the feature enabled and the peer
\* having closed the connection, whatever is unread in the receive buffer,
\* an update() call made when the health check is due moves to
\* RECONNECTING and shows exactly one message, "disconnected".
C7_MidSessionDrop ==
    [][ ( /\ current_state = CONNECTED /\ enabled /\ peer = "closed"
          /\ ShouldCheckHealth
          /\ \E outcome \in ConnectOutcomes : Update(outcome) )
          => ( /\ current_state' = RECONNECTING
               /\ notifications' = Append(notifications, MsgDisconnected) ) ]_vars

\* the message a transition from state `from' to state `to' shows
NoteOf(from, to) ==
    IF from = CONNECTING /\ to = CONNECTED THEN <<MsgConnected>>
    ELSE IF from = CONNECTED /\ to = RECONNECTING THEN <<MsgDisconnected>>
    ELSE IF from = RECONNECTING /\ to = CONNECTED THEN <<MsgReconnected>>
    ELSE <<>>

C9_ReconnectedOnlyAfterConnected ==
    [][ /\ (current_state' = CONNECTED /\ current_state # CONNECTED
              /\ ~hist.sessionConnected)
            => notifications' = Append(notifications, MsgConnected)
        /\ (notifications' = Append(notifications, MsgReconnected))
            => hist.sessionConnected ]_vars

DATA_CAPACITY == 1024

\* the tokens of the line receiveMapleMessage was given
ReceivedTokens == Tokens(StripTerminator(wire))

\* a byte written as exactly two hexadecimal digits
IsValidByteToken(tok) == Len(tok) = 2 /\ IsHexDigit(tok[1]) /\ IsHexDigit(tok[2])

\* the line starts with four well-formed header tokens
HeaderIsValid ==
    /\ Len(ReceivedTokens) >= HEADER_SIZE
    /\ \A k \in 1 .. HEADER_SIZE : IsValidByteToken(ReceivedTokens[k])

\* the word count the header claims
ClaimedWordCount == StoiHexU8(ReceivedTokens[HEADER_SIZE]).value

\* C11: malformed header.  Decoding a line of fewer than four tokens fails:
\* receiveMapleMessage returns false and reports no frame.
C11_MalformedHeaderFails ==
    (codec_pc = "decoded" /\ Len(ReceivedTokens) < HEADER_SIZE)
        => received.result = "false"

\* C12: truncated payload.  Decoding a line with a valid header and fewer
\* than wordCount * 4 payload tokens after it fails: receiveMapleMessage
\* returns false instead of a frame whose missing bytes are filled in.
C12_TruncatedPayloadFails ==
    ( /\ codec_pc = "decoded"
      /\ HeaderIsValid
      /\ Len(ReceivedTokens) - HEADER_SIZE < ClaimedWordCount * 4 )
        => received.result = "false"

\* C13: write bounds.  Whatever the line, decoding stores at most the 4
\* header bytes and 1024 payload bytes: every byte stored lies inside the
\* 1028 bytes of the MapleMsg.
C13_WriteBounds ==
    codec_pc = "decoded" =>
        /\ received.written \in 0 .. SIZEOF_MAPLEMSG
        /\ received.written - HEADER_SIZE <= DATA_CAPACITY

\* C13 happens: a line of more than 1028 tokens was decoded and the whole
\* MapleMsg, up to its last byte, was filled from it
C13_Witness ==
    /\ codec_pc = "decoded"
    /\ Len(ReceivedTokens) > SIZEOF_MAPLEMSG
    /\ received.written = SIZEOF_MAPLEMSG
    /\ received.msg[SIZEOF_MAPLEMSG] = 255

\* C14: invalid token.  Decoding a line with a token that is not exactly two
\* hexadecimal digits ends with receiveMapleMessage returning false: the
\* token is not accepted and no exception leaves the call.
C14_InvalidTokenFails ==
    ( /\ codec_pc = "decoded"
      /\ \E k \in 1 .. Len(ReceivedTokens) : ~IsValidByteToken(ReceivedTokens[k]) )
        => received.result = "false"

\* a byte as two upper-case hexadecimal digits
UpperHexByte(b) == <<UpperDigits[(b \div 16) + 1], UpperDigits[(b % 16) + 1]>>

\* C15: encode format.  The text sendMapleMessage writes is the four header
\* bytes and then exactly size * 4 data bytes, each as two upper-case
\* hexadecimal digits, one space between consecutive bytes, then CR LF and
\* nothing else.
C15_EncodeFormat ==
    codec_pc \in {"encoded", "decoded"} =>
        wire = Join([k \in 1 .. (HEADER_SIZE + GetDataSize(msg)) |-> UpperHexByte(msg[k])])
                   \o <<"\r", "\n">>

(***************************************************************************)
(* Properties of the client                                                *)
(***************************************************************************)
\* C19: connect() is idempotent.  Called on a client whose connected flag is
\* set, connect() returns true, opens no socket and leaves socket_fd and
\* connected as they were.
C19_ConnectIdempotent ==
    (last_call.name = "connect" /\ last_call.before.connected) =>
        /\ last_call.result
        /\ last_call.after = last_call.before
        /\ last_call.fdsAfter = last_call.fdsBefore

\* C19 happens: connect() was called on a connected client
C19_Witness ==
    /\ last_call.name = "connect"
    /\ last_call.before.connected
    /\ last_call.before.socket_fd # INVALID_SOCKET
    /\ last_call.result

\* C20: connect() failure.  When connect() returns false the client is left
\* not connected; when it returns true the connected flag is set and
\* socket_fd is a valid, open handle.
C20_ConnectResult ==
    last_call.name = "connect" =>
        /\ ~last_call.result => ~last_call.after.connected
        /\ last_call.result =>
              /\ last_call.after.connected
              /\ last_call.after.socket_fd # INVALID_SOCKET
              /\ last_call.after.socket_fd \in last_call.fdsAfter

\* C20 happens: connect() failed on a client that still held the handle of
\* an earlier connection, and left the client not connected
C20_Witness ==
    /\ last_call.name = "connect"
    /\ ~last_call.result
    /\ last_call.before.socket_fd # INVALID_SOCKET
    /\ ~last_call.after.connected
    /\ last_call.after.socket_fd = INVALID_SOCKET

(***************************************************************************)
(* Properties of concurrent frame exchanges                                *)
(***************************************************************************)
\* the call <<t, n, kind>> ended by a timeout or an I/O error
Aborted(t, n, kind) == <<t, n, kind>> \in aborted

\* every piece written that does not end its line is followed by the next
\* piece of the same line, unless the call that wrote it was cut short
LinesWrittenWhole ==
    \A i \in 1 .. (Len(socket_out) - 1) :
        LET x == socket_out[i]
            y == socket_out[i + 1]
        IN  x.part < LineChunks =>
                \/ y.by = x.by /\ y.n = x.n /\ y.part = x.part + 1
                \/ Aborted(x.by, x.n, "send")

\* every piece read that does not end its line is followed, in what was
\* read, by the next piece of that line read by the same call, unless the
\* call was cut short
LinesReadWhole ==
    \A i \in 1 .. (Len(read_log) - 1) :
        LET x == read_log[i]
            y == read_log[i + 1]
        IN  x.chunk.part < LineChunks =>
                \/ /\ y.by = x.by /\ y.n = x.n
                   /\ y.chunk.for = x.chunk.for /\ y.chunk.n = x.chunk.n
                   /\ y.chunk.part = x.chunk.part + 1
                \/ Aborted(x.by, x.n, "recv")

\* C16: mutual exclusion on the wire.  With two callers on one connected
\* client, at most one is inside sendMapleMessage or receiveMapleMessage
\* past the lock; the pieces of a line that a call writes are contiguous on
\* the socket, and the pieces of a line are read by one call, never in turn
\* by two.
C16_MutualExclusionOnWire ==
    /\ Cardinality({t \in Callers : caller_pc[t] \in {"send", "recv"}}) <= 1
    /\ LinesWrittenWhole
    /\ LinesReadWhole

\* C16 happens: both callers have made an exchange on the one client, each
\* request written whole and each answer read whole, no call cut short
C16_Witness ==
    /\ Len(socket_out) >= 2 * LineChunks
    /\ socket_out[1].by # socket_out[LineChunks + 1].by
    /\ \A t \in Callers : ret[t] = "true" /\ caller_pc[t] = "idle" /\ exchanges[t] = 1
    /\ Len(read_log) = 2 * LineChunks
    /\ aborted = {}

\* C17: exchange atomicity.  One lock covers sendMapleMessage and the
\* receiveMapleMessage that follows it: while a caller is between the start
\* of its send and the end of its receive, the other caller is not inside
\* either function, and the frame a caller receives answers its own request.
C17_ExchangeAtomic ==
    /\ \A t, u \in Callers :
          (t # u /\ caller_pc[t] \in {"send", "between", "recv_lock", "recv"})
              => caller_pc[u] \notin {"send", "recv"}
    /\ \A t \in Callers :
          reply[t] # NoReply => reply[t].for = t

\* C18: cancellation.  When setEnabled(false) releases the client while a
\* caller is inside sendMapleMessage or receiveMapleMessage, the call ends
\* by returning false: no call is in progress on a destroyed client and none
\* ends in any other way.
C18_CancelFailsCleanly ==
    \A t \in Callers :
        /\ InFlight(t) => client.exists
        /\ ret[t] \in {"none", "true", "false"}

(***************************************************************************)
(* Properties of disconnect() and of the liveness probe                    *)
(***************************************************************************)
\* C21: disconnect() is idempotent.  After disconnect() socket_fd is invalid
\* and connected is false; the only handle it closes is the one the client
\* held, and on a client that holds none (disconnected already, or never
\* connected) it changes nothing.
C21_DisconnectIdempotent ==
    last_call.name = "disconnect" =>
        /\ last_call.after.socket_fd = INVALID_SOCKET
        /\ ~last_call.after.connected
        /\ last_call.fdsAfter = last_call.fdsBefore \ {last_call.before.socket_fd}
        /\ (last_call.before.socket_fd = INVALID_SOCKET /\ ~last_call.before.connected)
              => /\ last_call.after = last_call.before
                 /\ last_call.fdsAfter = last_call.fdsBefore

\* C21 happens: disconnect() was called twice in a row, the first call
\* having closed the handle of a connection
C21_Witness ==
    /\ last_call.name = "disconnect"
    /\ last_call.prev = "disconnect"
    /\ last_call.before.socket_fd = INVALID_SOCKET
    /\ 1 \notin last_call.fdsAfter
    /\ hist.connectOk

\* C22: liveness probe.  On a client whose connected flag is set,
\* isConnected() returns false and clears the flag exactly when the peek
\* returns zero bytes or a hard error, and returns true with the flag left
\* set when the peek would block; on a client whose flag is clear it returns
\* false and makes no recv().
C22_ProbeResult ==
    last_call.name = "isConnected" =>
        /\ last_call.before.connected =>
              /\ last_call.peek # "none"
              /\ ~last_call.result <=> last_call.peek \in {"zero", "error"}
              /\ last_call.after.connected <=> last_call.result
              /\ last_call.peek = "wouldblock" => last_call.result
        /\ ~last_call.before.connected =>
              /\ ~last_call.result
              /\ last_call.peek = "none"
              /\ last_call.after = last_call.before
        /\ last_call.after.socket_fd = last_call.before.socket_fd
        /\ last_call.fdsAfter = last_call.fdsBefore

\* C22 happens: a probe met a closed connection and cleared the flag, and
\* the next probe returned false without a recv()
C22_Witness ==
    /\ last_call.name = "isConnected"
    /\ last_call.prev = "isConnected"
    /\ ~last_call.before.connected
    /\ last_call.before.socket_fd # INVALID_SOCKET
    /\ peer = "closed"
    /\ last_call.peek = "none"

(***************************************************************************)
(* Properties of sendRawMessage / receiveRawMessage                        *)
(***************************************************************************)
\* the bytes the call has read from the socket
Consumed == SubSeq(raw.stream, 1, raw.pos)

HasCrLf(t) == \E i \in 1 .. (Len(t) - 1) : t[i] = "\r" /\ t[i + 1] = "\n"

\* C23: timeout versus hard failure.  A sendRawMessage or receiveRawMessage
\* call that fails on a connected client clears connected if and only if it
\* failed on a zero result, a hard error or (receiving) a line too long; a
\* call that fails on the deadline leaves connected set.
C23_TimeoutVersusHardFailure ==
    (raw.pc = "done" /\ raw.result = "false" /\ raw.why # "not_connected") =>
        /\ ~client.connected <=> raw.why \in {"zero", "error", "too_long"}
        /\ raw.why = "timeout" => client.connected
        /\ raw.why = "too_long" => raw.call = "recv"

\* C23 happens: a send timed out after part of the message was written and
\* the client is still connected
C23_Witness ==
    /\ raw.pc = "done"
    /\ raw.call = "send"
    /\ raw.why = "timeout"
    /\ raw.total_sent > 0
    /\ raw.total_sent < raw.message
    /\ client.connected

\* C24: maximum line length.  receiveRawMessage never holds more than
\* MAX_LINE_LENGTH + 1 bytes; once it has read more than MAX_LINE_LENGTH
\* bytes without a CR LF it has failed and cleared connected; when it
\* succeeds the text returned is what it read up to the first CR LF, the
\* CR LF taken off.
C24_MaximumLineLength ==
    /\ Len(raw.response) <= MAX_LINE_LENGTH + 1
    /\ (raw.call = "recv" /\ raw.pos > MAX_LINE_LENGTH /\ ~HasCrLf(Consumed)) =>
            /\ raw.pc = "done"
            /\ raw.result = "false"
            /\ ~client.connected
    /\ (raw.call = "recv" /\ raw.result = "true") =>
            /\ Consumed = raw.response \o <<"\r", "\n">>
            /\ ~HasCrLf(SubSeq(Consumed, 1, Len(Consumed) - 1))

\* C24 happens: the peer sent MAX_LINE_LENGTH + 1 bytes with no CR LF and the
\* call failed with connected cleared
C24_Witness ==
    /\ raw.call = "recv"
    /\ raw.pos = MAX_LINE_LENGTH + 1
    /\ Len(raw.response) = MAX_LINE_LENGTH + 1
    /\ raw.result = "false"
    /\ raw.why = "too_long"
    /\ ~client.connected

(***************************************************************************)
(* Properties of frame calls on a client that is not connected             *)
(***************************************************************************)
\* caller t gets past the lock_guard of sendMapleMessage / receiveMapleMessage
PassesLock(t) ==
    /\ caller_pc[t] \in {"send_lock", "recv_lock"}
    /\ caller_pc'[t] # caller_pc[t]

\* C25: when connected is false, sendMapleMessage and receiveMapleMessage
\* fail at once: the call returns false, no byte is written to or read from
\* the socket, and the caller's frame is left as it was.
C25_NotConnectedFailsAtOnce ==
    [][\A t \in Callers :
          (client.exists /\ ~client.connected /\ PassesLock(t)) =>
              /\ ret'[t] = "false"
              /\ caller_pc'[t] = "idle"
              /\ socket_out' = socket_out
              /\ socket_in' = socket_in
              /\ read_log' = read_log
              /\ reply' = reply
              /\ client' = client]_vars

\* C25 happens: a caller whose request went out in full called
\* receiveMapleMessage after a hard error of the other caller had cleared
\* connected, and got false with nothing read for it
C25_Witness ==
    /\ client.exists
    /\ ~client.connected
    /\ \E t \in Callers :
          /\ caller_pc[t] = "idle"
          /\ ret[t] = "false"
          /\ exchanges[t] = 1
          /\ \A kind \in {"send", "recv"} : ~Aborted(t, 1, kind)
          /\ \E i \in 1 .. Len(socket_out) :
                socket_out[i] = [by |-> t, n |-> 1, part |-> LineChunks]
          /\ \A i \in 1 .. Len(read_log) : read_log[i].by # t
          /\ reply[t] = NoReply

(***************************************************************************)
(* Socket handles                                                          *)
(***************************************************************************)
\* C26: one socket per client.  Whatever calls were made and however the
\* I/O went, the only handle open is the one the client holds in socket_fd:
\* at most one socket is open, and each socket opened earlier was closed
\* before the next was opened.
C26_OneSocketPerClient ==
    /\ Cardinality(openFds) <= 1
    /\ openFds \subseteq {client.socket_fd}

(***************************************************************************)
(* Properties of the retry timer and of the transition relation            *)
(***************************************************************************)
\* this step is an update() call
UpdateStep == \E outcome \in ConnectOutcomes : Update(outcome)

\* C29: retry gating.  In RECONNECTING with the feature enabled, update()
\* calls connect() if and only if the time in the state is at least
\* backoff_seconds; a failed attempt doubles backoff_seconds up to
\* MAX_BACKOFF_SECONDS, stays in RECONNECTING and restarts the time in the
\* state; a call that makes no attempt changes none of them.
C29_RetryGating ==
    [][ (current_state = RECONNECTING /\ enabled /\ UpdateStep) =>
          /\ op'.connect # "none" <=> timeInState >= backoff_seconds
          /\ op'.connect = "fail" =>
                /\ backoff_seconds' = Min(2 * backoff_seconds, MAX_BACKOFF_SECONDS)
                /\ current_state' = RECONNECTING
                /\ timeInState' = 0
          /\ op'.connect = "none" =>
                /\ backoff_seconds' = backoff_seconds
                /\ current_state' = RECONNECTING
                /\ timeInState' = timeInState ]_vars

\* C29 happens: retries failed until the backoff reached its cap, each after
\* the wait before it, and the timer has just been restarted
C29_Witness ==
    /\ op.name = "update"
    /\ op.from = RECONNECTING
    /\ op.connect = "fail"
    /\ current_state = RECONNECTING
    /\ backoff_seconds = MAX_BACKOFF_SECONDS
    /\ timeInState = 0
    /\ waits = <<1, 2, 4, 8, 16, 30>>

\* the transitions of the supervisor
Transitions ==
    { <<DISABLED, DISCONNECTED>>, <<DISCONNECTED, CONNECTING>>,
      <<CONNECTING, CONNECTED>>, <<CONNECTING, RECONNECTING>>,
      <<CONNECTED, RECONNECTING>>, <<RECONNECTING, CONNECTED>>,
      <<RECONNECTING, RECONNECTING>> }
        \cup { <<s, DISABLED>> :
                  s \in {DISCONNECTED, CONNECTING, CONNECTED, RECONNECTING} }

\* C30: transition relation.  The supervisor starts in DISABLED, and every
\* update() or setEnabled() call either leaves the state as it is or takes
\* one of the transitions listed; no other step changes the state.
C30_TransitionRelation ==
    /\ current_state = DISABLED
    /\ [][ /\ current_state' # current_state =>
                /\ <<current_state, current_state'>> \in Transitions
                /\ UpdateStep \/ \E enable \in BOOLEAN : SetEnabled(enable)
           /\ (UpdateStep \/ \E enable \in BOOLEAN : SetEnabled(enable)) =>
                \/ current_state' = current_state
                \/ <<current_state, current_state'>> \in Transitions ]_vars

\* C30 happens: a session went CONNECTED -> RECONNECTING -> CONNECTED
C30_Witness ==
    /\ hist.unhealthy
    /\ op.name = "update"
    /\ op.from = RECONNECTING
    /\ op.connect = "ok"
    /\ current_state = CONNECTED

(***************************************************************************)
(* Health-check cadence                                                    *)
(***************************************************************************)
\* this step is an update() call in CONNECTED that makes the liveness probe
\* (isConnectionHealthy() restarts the time since the last check)
ProbeStep ==
    /\ current_state = CONNECTED
    /\ enabled
    /\ UpdateStep
    /\ sinceHealthCheck # 0
    /\ sinceHealthCheck' = 0

\* C28: health-check cadence.  While CONNECTED and enabled, no liveness
\* probe is made before HEALTH_CHECK_INTERVAL_SECONDS have passed since
\* CONNECTED was entered and since the previous probe, whatever time stamps
\* an earlier period left behind.
C28_HealthCheckCadence ==
    [][ ProbeStep =>
          /\ timeInState >= HEALTH_CHECK_INTERVAL_SECONDS
          /\ sinceHealthCheck >= HEALTH_CHECK_INTERVAL_SECONDS ]_vars

(***************************************************************************)
(* Recovery                                                                *)
(***************************************************************************)
\* the frontend takes down the oldest message once its duration is over
Displayed ==
    /\ notifications # <<>>
    /\ notifications' = Tail(notifications)
    /\ UNCHANGED <<current_state, enabled, backoff_seconds, timeInState,
                   sinceHealthCheck, client, openFds, peer, rx, op, hist, waits>>
    /\ UNCHANGED <<codecVars, callerVars>>

\* setEnabled(enable) and update() with no history kept of them
LiveSetEnabled(enable) ==
    /\ SetEnabledEffect(enable)
    /\ UNCHANGED <<op, hist, waits>>
    /\ UNCHANGED <<codecVars, callerVars>>

LiveUpdate(outcome) ==
    /\ UpdateEffect(outcome)
    /\ UNCHANGED <<op, hist, waits>>
    /\ UNCHANGED <<codecVars, callerVars>>

LiveNext ==
    \/ \E enable \in BOOLEAN : LiveSetEnabled(enable)
    \/ \E outcome \in ConnectOutcomes : LiveUpdate(outcome)
    \/ Tick
    \/ PeerSend
    \/ PeerClose
    \/ PeerReset
    \/ \E k \in 0 .. MaxRx, lineEnds \in BOOLEAN : ReceiveRaw(k, lineEnds)
    \/ SendRaw
    \/ Displayed

\* the supervisor run by a frontend that keeps calling update() while time
\* passes and messages expire
LiveSpec ==
    /\ Init
    /\ [][LiveNext]_vars
    /\ WF_vars(\E outcome \in ConnectOutcomes : LiveUpdate(outcome))
    /\ WF_vars(Tick)
    /\ WF_vars(Displayed)

\* a step in which the transport fails: the peer closes or aborts the
\* connection, or a connect() attempt fails
FailureStep ==
    \/ peer' \in {"closed", "reset"} /\ peer' # peer
    \/ \E outcome \in ConnectOutcomes :
          LiveUpdate(outcome) /\ UpdateResult(outcome).connect = "fail"

\* C27: recovery liveness.  If from some point on the feature stays enabled,
\* no connect() attempt fails and the peer neither closes nor aborts the
\* connection, while update() keeps being called and time advances, then
\* the supervisor eventually is CONNECTED and stays CONNECTED.
C27_RecoveryLiveness ==
    (<>[]enabled /\ <>[][~FailureStep]_vars) => <>[](current_state = CONNECTED)

\* C27 happens: after a lost connection (its socket is still open beside
\* the new one) the supervisor is CONNECTED again and has stayed so through
\* a health check
C27_Witness ==
    /\ current_state = CONNECTED
    /\ enabled
    /\ openFds = {1, 2}
    /\ client.socket_fd = 2
    /\ client.connected
    /\ peer = "open"
    /\ backoff_seconds = 1
    /\ timeInState = HEALTH_CHECK_INTERVAL_SECONDS
    /\ sinceHealthCheck = 1
    /\ notifications = <<>>

(***************************************************************************)
(* Loss of the connection found by I/O                                     *)
(***************************************************************************)
\* C31: I/O-detected loss.  When the supervisor is CONNECTED and enabled and
\* a send or receive on the client has cleared connected, the update() call
\* made with the health check due enters RECONNECTING and shows exactly one
\* message, "disconnected"; an earlier update() changes nothing; and a retry
\* that succeeds after it has opened a socket that was not open before.
C31_IoDetectedLoss ==
    [][ /\ ( /\ current_state = CONNECTED /\ enabled
             /\ client.exists /\ ~client.connected
             /\ UpdateStep )
          => IF ShouldCheckHealth
             THEN /\ current_state' = RECONNECTING
                  /\ notifications' = Append(notifications, MsgDisconnected)
                  /\ ~client'.connected
             ELSE /\ current_state' = CONNECTED
                  /\ notifications' = notifications
        /\ ( /\ current_state = RECONNECTING /\ enabled
             /\ UpdateStep /\ op'.connect = "ok" )
          => /\ client'.connected
             /\ client'.socket_fd \in openFds' \ openFds
             /\ peer' = "open" ]_vars

\* C31 happens: a receive met the end of the stream while CONNECTED and
\* cleared connected, and the health check is due
C31_Witness ==
    /\ current_state = CONNECTED
    /\ enabled
    /\ client.exists
    /\ ~client.connected
    /\ peer = "closed"
    /\ rx = 0
    /\ ShouldCheckHealth
    /\ timeInState >= 1

(***************************************************************************)
(* Frames against the line limit                                           *)
(***************************************************************************)
\* C32: send/receive size compatibility.  For every frame of 0..255 words
\* the line sendMapleMessage writes (3*(4+4*size)-1 characters, CR LF) is
\* one receiveRawMessage accepts: when the peer delivers all of it, the call
\* returns true with the line, and does not give it up as too long.
C32_SizeCompatibility ==
    (raw.call = "recv" /\ raw.frame_size >= 0) =>
        /\ Len(raw.stream) = 3 * (HEADER_SIZE + 4 * raw.frame_size) - 1 + 2
        /\ raw.why # "too_long"
        /\ raw.pos = Len(raw.stream) =>
              /\ raw.result = "true"
              /\ raw.response = StripTerminator(raw.stream)

(***************************************************************************)
(* Termination of the raw calls                                            *)
(***************************************************************************)
\* C33: bounded retry loops.  Every sendRawMessage and receiveRawMessage
\* call returns, whatever the peer does (takes or delivers bytes one at a
\* time, stalls for ever, streams without a terminator), provided the clock
\* advances.
C33_BoundedRetryLoops == <>(raw.pc = "done")

\* C33 happens: the peer delivered part of a line and then nothing, and the
\* receive returned on the deadline
C33_Witness ==
    /\ raw.pc = "done"
    /\ raw.call = "recv"
    /\ raw.late
    /\ raw.why = "timeout"
    /\ raw.pos = MAX_LINE_LENGTH
    /\ raw.pos < Len(raw.stream)
    /\ raw.result = "false"

(***************************************************************************)
(* Invariants of the supervisor's members                                  *)
(***************************************************************************)
\* C34: after every setEnabled() or update() call the enabled flag is true
\* if and only if the state is not DISABLED.
C34_EnabledIffNotDisabled == enabled <=> current_state # DISABLED

\* C34 happens: the feature was switched off while CONNECTED and on again
C34_Witness ==
    /\ op.name = "setEnabled"
    /\ op.arg
    /\ op.prev.name = "setEnabled"
    /\ ~op.prev.arg
    /\ op.prev.from = CONNECTED
    /\ enabled
    /\ current_state = DISCONNECTED

\* C35: client ownership by state.  getClient() returns null in DISABLED
\* and DISCONNECTED and a client in CONNECTED and RECONNECTING; a client
\* comes into being only in an update() call made in CONNECTING or
\* RECONNECTING while the supervisor holds none.
C35_ClientOwnershipByState ==
    /\ [](/\ current_state \in {DISABLED, DISCONNECTED} => ~client.exists
          /\ current_state \in {CONNECTED, RECONNECTING} => client.exists)
    /\ [][ (client'.exists /\ ~client.exists) =>
              /\ UpdateStep
              /\ current_state \in {CONNECTING, RECONNECTING} ]_vars

\* C35 happens: the first attempt failed and the supervisor waits in
\* RECONNECTING with the client it made for it
C35_Witness ==
    /\ current_state = RECONNECTING
    /\ op.name = "update"
    /\ op.from = CONNECTING
    /\ op.connect = "fail"
    /\ client.exists
    /\ client.socket_fd = INVALID_SOCKET
    /\ ~client.connected

\* C36: backoff_seconds is changed only by update(): a connect() that
\* succeeds sets it to 1 and a retry that fails in RECONNECTING doubles it up
\* to MAX_BACKOFF_SECONDS.  setEnabled() and a first attempt that fails in
\* CONNECTING leave it as it is, so a backoff built up before the feature
\* was switched off is the wait of the first RECONNECTING period after it
\* is switched on again.
C36_BackoffOnlyByUpdate ==
    [][ /\ backoff_seconds' # backoff_seconds =>
              /\ UpdateStep
              /\ \/ op'.connect = "ok" /\ backoff_seconds' = 1
                 \/ /\ current_state = RECONNECTING
                    /\ op'.connect = "fail"
                    /\ backoff_seconds' = Min(2 * backoff_seconds, MAX_BACKOFF_SECONDS)
        /\ (op'.connect = "ok" /\ backoff_seconds' # 1) => ~UpdateStep
        /\ (/\ current_state = CONNECTING
            /\ op'.connect = "fail"
            /\ backoff_seconds' # backoff_seconds) => ~UpdateStep
        /\ backoff_seconds' # backoff_seconds =>
              ~(\E enable \in BOOLEAN : SetEnabled(enable)) ]_vars

\* C36 happens: retries had brought the backoff to 8, the feature was
\* switched off and on, the first attempt failed, and the first wait in
\* RECONNECTING is of 8 seconds
C36_Witness ==
    /\ hist.disabledAfterFailure
    /\ op.name = "update"
    /\ op.from = CONNECTING
    /\ op.connect = "fail"
    /\ current_state = RECONNECTING
    /\ backoff_seconds = 8
    /\ timeInState = 0

\* this step is a setEnabled() call
SetEnabledStep == \E enable \in BOOLEAN : SetEnabled(enable)

\* C37: the supervisor calls connect() only in an update() call made in
\* CONNECTING or RECONNECTING with the feature enabled, once at most.  No
\* other step makes a client, opens a socket or sets the client's connected
\* flag: not update() in DISABLED, DISCONNECTED or CONNECTED, and not
\* setEnabled().
C37_ConnectOnlyFromAttemptStates ==
    [][ /\ (UpdateStep /\ op'.connect # "none") =>
              /\ current_state \in {CONNECTING, RECONNECTING}
              /\ enabled
        /\ ( \/ client'.exists /\ ~client.exists
             \/ client'.connected /\ ~client.connected
             \/ ~(openFds' \subseteq openFds) ) =>
              /\ UpdateStep
              /\ op'.connect # "none"
              /\ Cardinality(openFds' \ openFds) <= 1
        /\ SetEnabledStep =>
              /\ client'.exists => client' = client
              /\ openFds' \subseteq openFds ]_vars

\* C37 happens: the first attempt, made in CONNECTING, failed, and the retry
\* made in RECONNECTING opened the connection
C37_Witness ==
    /\ op.name = "update"
    /\ op.from = RECONNECTING
    /\ op.connect = "ok"
    /\ op.prev.name = "update"
    /\ hist.connectFailed
    /\ ~hist.unhealthy
    /\ ~hist.disabled
    /\ current_state = CONNECTED
    /\ openFds = {1}

(***************************************************************************)
(* Integrity of the lines on the socket                                    *)
(***************************************************************************)
\* C38: outgoing line integrity.  While connected stays true, also after
\* sendMapleMessage calls that timed out with part of their line written,
\* every line the peer gets up to a CR LF is the whole encoding of one
\* frame: its pieces are those of one call, all of them, and it begins
\* where the line before it ended.
C38_OutgoingLineIntegrity ==
    client.connected =>
        \A i \in 1 .. Len(socket_out) :
            socket_out[i].part = LineChunks =>
                /\ i >= LineChunks
                /\ \A k \in 1 .. LineChunks :
                      socket_out[i - LineChunks + k] =
                          [by |-> socket_out[i].by, n |-> socket_out[i].n, part |-> k]
                /\ \/ i = LineChunks
                   \/ socket_out[i - LineChunks].part = LineChunks

\* C39: incoming line integrity.  Every receiveMapleMessage call that
\* returns true has read one whole line of the peer, from its first piece
\* on, also when an earlier call timed out after reading part of a line
\* with connected left true.
C39_IncomingLineIntegrity ==
    \A i \in 1 .. Len(read_log) :
        read_log[i].chunk.part = LineChunks =>
            /\ i >= LineChunks
            /\ \A k \in 1 .. LineChunks :
                  read_log[i - LineChunks + k] =
                      [by |-> read_log[i].by, n |-> read_log[i].n,
                       chunk |-> [for |-> read_log[i].chunk.for,
                                  n |-> read_log[i].chunk.n, part |-> k]]

(***************************************************************************)
(* MapleMsg::setWord                                                       *)
(***************************************************************************)
\* calls of setWord() followed on one frame
MaxSetWords == 2

\* the indices setWord() is called with: below, at the ends of and above 0..255
IndexSamples == {-1, 0, 1, 2, 254, 255, 256}

\* the u32 written, as its four bytes in memory
WordSamples == {<<1, 0, 0, 0>>, <<255, 255, 255, 255>>}

\* MapleMsg::setWord(p, index): index outside 0..255 returns at once;
\* memcpy(&data[index * 4], &p, 4); size = index + 1, kept in the u8 it is
\* stored in, if size <= index
SetWord(m, p, index) ==
    IF index < 0 \/ index >= 256
    THEN m
    ELSE LET first == HEADER_SIZE + index * 4
             written == [i \in 1..SIZEOF_MAPLEMSG |->
                            IF i > first /\ i <= first + 4
                            THEN p[i - first]
                            ELSE m[i]]
         IN IF Size(m) <= index
            THEN [written EXCEPT ![4] = (index + 1) % 256]
            ELSE written

\* a frame of each sample size, before the first setWord()
WordInit ==
    \E c \in CommandSamples, sz \in SizeSamples :
        built = [frame |-> SampleMsg(c, 1, 0, sz, 1), before |-> <<>>,
                 index |-> 0, calls |-> 0]

\* one call of setWord() on the frame
SetWordCall ==
    /\ built.calls < MaxSetWords
    /\ \E p \in WordSamples, index \in IndexSamples :
           built' = [frame |-> SetWord(built.frame, p, index),
                     before |-> built.frame,
                     index |-> index,
                     calls |-> built.calls + 1]
    /\ UNCHANGED <<supervisorVars, codecVars, last_call, busVars, rawVars>>

WordNext == SetWordCall

WordSpecInit ==
    /\ SupervisorIdle
    /\ CodecIdle
    /\ last_call = NoClientCall
    /\ BusIdle
    /\ RawIdle
    /\ WordInit

\* setWord() alone, a few calls on one frame
WordSpec == WordSpecInit /\ [][WordNext]_vars

\* C40: after setWord(value, index) with index in 0..255 the frame's size is
\* at least index + 1 and not smaller than before the call; with an index
\* outside 0..255 the frame is unchanged; size * 4 <= 1024 after every call.
\* The code stores index + 1 in a u8: setWord(value, 255) leaves size = 0.
C40_SetWordGrowsSize ==
    built.calls > 0 =>
        /\ built.index \in 0..255 =>
               /\ Size(built.frame) >= built.index + 1
               /\ Size(built.frame) >= Size(built.before)
        /\ built.index \notin 0..255 => built.frame = built.before
        /\ Size(built.frame) * 4 <= DATA_CAPACITY

====
